---- MODULE Spec2Model ----
(***************************************************************************)
(* CI/CD Pipeline Health Dashboard: webhook ingestion into the builds      *)
(* table (backend/src/routes/webhooks.js), the alert rule's cooldown and   *)
(* acknowledgment state (database/models/Alert.js, routes/alerts.js) and   *)
(* the multi-channel notification dispatcher (alertNotificationService),   *)
(* the metrics routes and PUT /api/builds/:id.                             *)
(*                                                                         *)
(* Dates are integers in milliseconds.  A nullable value is the empty      *)
(* sequence (null / undefined) or a one-element sequence.                  *)
(***************************************************************************)
EXTENDS Integers, Sequences, FiniteSets, TLC

VARIABLES
  pipeline,    \* the row of the pipelines table
  builds,      \* the builds table: a sequence of rows, a row's id is its index
  last,        \* the answer to the last webhook delivery or PUT and what it did
  inflight,    \* webhook handlers between their lookup and their write
  alert,       \* the row of the alerts table
  now,         \* the clock, in ticks
  history,     \* the alert_history table: a sequence of rows
  evals,       \* rule evaluations between their canTrigger and their trigger
  lastOp,      \* the last operation on the alert rule and its outcome
  lastTrig,    \* the instant of the rule's latest trigger
  channels,    \* sendNotification: the channel list it was called with
  config,      \* which transports the notification service has configured
  transport,   \* what each configured transport does when used
  pos,         \* sendNotification: the channels its loop has gone through
  results,     \* sendNotification: its results object
  attempted,   \* the channels attempted so far, in order
  dpc,         \* sendNotification: "running", "awaiting", "returned", "thrown"; "recorded"
  record,      \* the AlertHistory row the notification is about
  mapCall,     \* a call of a status mapper: the function and its arguments
  mapped,      \* what the call returned
  sample,      \* the builds a metrics request has read from the table
  report,      \* the figures the metrics request answers with
  jenkins,     \* what the Jenkins server reports: its jobs and their builds
  notifications, \* the notifications list of the alert service of the notifications routes
  sync,        \* the answer of the last Jenkins sync and the alerts it sent
  emailService, \* the email service of the notifications routes: its transporter
  mailed       \* the alerts asked to be mailed and those handed to the transport

ingestVars == <<pipeline, builds, last, inflight>>
alertVars == <<alert, now, history, evals, lastOp, lastTrig>>
dispatchVars == <<channels, config, transport, pos, results, attempted, dpc, record>>
mapVars == <<mapCall, mapped>>
metricsVars == <<sample, report>>
syncVars == <<jenkins, notifications, sync, emailService, mailed>>
vars == <<ingestVars, alertVars, dispatchVars, mapVars, metricsVars, syncVars>>

(***************************************************************************)
(* Bounds and sample values.                                               *)
(***************************************************************************)
\* The builds table holds at most MaxRows rows.
MaxRows == 2

\* Sample instants, in milliseconds, for the dates a body carries.
Times == {0, 1500}

\* new Date(): the instant of handling.  No handler compares it with anything.
Clock == {1500}

\* Provider-native run / build / job identifiers.
RunIds == {7, 42}

None == <<>>
Some(v) == <<v>>
IsSet(x) == x # None
Val(x) == x[1]
Nullable(S) == {None} \cup {Some(v) : v \in S}

TerminalStatuses == {"success", "failed", "cancelled"}
CanonicalStatuses == {"pending", "running"} \cup TerminalStatuses

\* pending < running < terminal
Rank(s) == CASE s = "pending" -> 0
             [] s = "running" -> 1
             [] OTHER -> 2

\* Math.floor(ms / 1000): \div rounds towards minus infinity, as Math.floor does
FloorSeconds(ms) == ms \div 1000

(***************************************************************************)
(* The pipelines table.  Every state holds one configured pipeline; ref is *)
(* the provider-specific address its config stores (repository, job_name,  *)
(* project_id).                                                            *)
(***************************************************************************)
Pipelines ==
  { [id |-> 1, type |-> "github-actions", ref |-> "org/repo", branches |-> {"main"}],
    [id |-> 2, type |-> "jenkins",        ref |-> "job1",     branches |-> {}],
    [id |-> 3, type |-> "gitlab-ci",      ref |-> "101",      branches |-> {}],
    [id |-> 4, type |-> "azure-devops",   ref |-> "proj",     branches |-> {}] }

\* a lookup by type alone
FindPipelineAny(type, ref) ==
  IF pipeline.type = type THEN Some(pipeline) ELSE None

\* Pipeline.findOne({ where: { type, config: { <ref> } } })
FindPipeline(type, ref) ==
  IF pipeline.type = type /\ pipeline.ref = ref THEN Some(pipeline) ELSE None

\* the address of the configured pipeline, when it is of this type
Configured(type) == IF pipeline.type = type THEN {pipeline.ref} ELSE {}

(***************************************************************************)
(* The builds table (backend/src/models/Build.js).                         *)
(***************************************************************************)
\* validate: { min: 0 } on duration: create and update reject a negative one
ValidBuild(fields) == IsSet(fields.duration) => Val(fields.duration) >= 0

\* the row ids Build.findOne({ where: { external_id, pipeline_id } }) may return
Matching(tbl, pid, ext) ==
  {i \in 1..Len(tbl) : tbl[i].pipeline_id = pid /\ tbl[i].external_id = ext}

\* build.update({ status, completed_at, duration }) on row i
UpdateRow(tbl, i, fields) ==
  [tbl EXCEPT ![i] = [@ EXCEPT !.status = fields.status,
                               !.completed_at = fields.completed_at,
                               !.duration = fields.duration]]

\* Build.create({ ... })
CreateRow(tbl, pid, ext, started, fields) ==
  Append(tbl, [pipeline_id |-> pid, external_id |-> ext,
               status |-> fields.status, started_at |-> started,
               completed_at |-> fields.completed_at,
               duration |-> fields.duration])

(***************************************************************************)
(* Status mappers (webhooks.js, "Status mapping functions").  An argument   *)
(* is Some(string), or None for undefined and null.                        *)
(***************************************************************************)
\* a mapper that takes every completed run for a success
mapGitHubStatusCompleted(status, conclusion) ==
  CASE status = Some("completed")   -> "success"
    [] status = Some("in_progress") -> "running"
    [] OTHER -> "pending"

mapGitHubStatus(status, conclusion) ==
  IF status = Some("completed")
  THEN CASE conclusion = Some("success")   -> "success"
         [] conclusion = Some("failure")   -> "failed"
         [] conclusion = Some("cancelled") -> "cancelled"
         [] conclusion = Some("skipped")   -> "cancelled"
         [] OTHER -> "failed"
  ELSE IF status = Some("in_progress") THEN "running"
  ELSE IF status = Some("queued") \/ status = Some("waiting") THEN "pending"
  ELSE "pending"

\* the result parameter is never read
mapJenkinsStatus(status, result) ==
  CASE status = Some("SUCCESS")     -> "success"
    [] status = Some("FAILURE")     -> "failed"
    [] status = Some("ABORTED")     -> "cancelled"
    [] status = Some("UNSTABLE")    -> "failed"
    [] status = Some("IN_PROGRESS") -> "running"
    [] OTHER -> "pending"

mapGitLabStatus(status) ==
  CASE status = Some("success")  -> "success"
    [] status = Some("failed")   -> "failed"
    [] status = Some("canceled") -> "cancelled"
    [] status = Some("running")  -> "running"
    [] status = Some("pending")  -> "pending"
    [] status = Some("skipped")  -> "cancelled"
    [] OTHER -> "pending"

mapAzureStatus(state, result) ==
  IF state = Some("completed")
  THEN CASE result = Some("succeeded")          -> "success"
         [] result = Some("failed")             -> "failed"
         [] result = Some("canceled")           -> "cancelled"
         [] result = Some("partiallySucceeded") -> "failed"
         [] OTHER -> "failed"
  ELSE IF state = Some("inProgress") THEN "running"
  ELSE IF state = Some("notStarted") \/ state = Some("postponed") THEN "pending"
  ELSE "pending"

(***************************************************************************)
(* The status mappers as functions of their arguments, and the mapper of   *)
(* services/githubActions.js, whose result goes out with emitBuildStatus.  *)
(***************************************************************************)
\* Values a provider may send for a status, state, conclusion or result: the
\* vocabularies of the four providers and two that none of them has.
NativeValues ==
  {"completed", "in_progress", "queued", "waiting", "requested",
   "success", "failure", "cancelled", "skipped", "timed_out",
   "SUCCESS", "FAILURE", "ABORTED", "UNSTABLE", "IN_PROGRESS",
   "failed", "canceled", "running", "pending",
   "inProgress", "notStarted", "postponed", "succeeded", "partiallySucceeded",
   "brand_new"}

\* GitHubActionsService.mapGitHubStatus: statusMap[githubStatus] || 'unknown'
GitHubActionsService_mapGitHubStatus(githubStatus) ==
  CASE githubStatus = Some("success")     -> "success"
    [] githubStatus = Some("failure")     -> "failed"
    [] githubStatus = Some("cancelled")   -> "cancelled"
    [] githubStatus = Some("skipped")     -> "skipped"
    [] githubStatus = Some("in_progress") -> "running"
    [] githubStatus = Some("queued")      -> "pending"
    [] githubStatus = Some("waiting")     -> "pending"
    [] githubStatus = Some("requested")   -> "pending"
    [] OTHER -> "unknown"

\* GitHubActionsService.handleWorkflowRunEvent: the status of the buildData it
\* emits, mapGitHubStatus(workflow_run.conclusion || workflow_run.status)
handleWorkflowRunEvent(status, conclusion) ==
  GitHubActionsService_mapGitHubStatus(IF IsSet(conclusion) THEN conclusion ELSE status)

\* no mapper has been called
InitMap ==
  /\ mapCall = [fn |-> "none", a |-> None, b |-> None]
  /\ mapped = None

\* the answer of no metrics request
NoReport ==
  [endpoint |-> "none", total_builds |-> 0, successful |-> 0,
   successRate |-> [num |-> 0, den |-> 1], success_rate |-> 0,
   status_distribution |-> <<>>, sortedDurations |-> <<>>,
   index |-> [median |-> 0, p95 |-> 0, p99 |-> 0],
   median |-> 0, p95 |-> 0, p99 |-> 0]

\* no metrics request has been made
InitNoMetrics ==
  /\ sample = <<>>
  /\ report = NoReport

\* no Jenkins server, no notification, no sync made, an email service that
\* has its transporter
NoSync == [code |-> 0, total_builds |-> 0, synced_builds |-> 0, alerts_created |-> 0,
           alerts |-> <<>>, seen |-> <<>>]
InitNoSync ==
  /\ jenkins = <<>>
  /\ notifications = <<>>
  /\ sync = NoSync
  /\ emailService = [init |-> "done", transporter |-> TRUE]
  /\ mailed = [asked |-> <<>>, handed |-> <<>>]

\* a mapper is about to be called
InitMapCall ==
  /\ mapCall \in [fn : {"mapGitHubStatus", "mapJenkinsStatus", "mapAzureStatus",
                        "handleWorkflowRunEvent"},
                  a : Nullable(NativeValues), b : Nullable(NativeValues)]
               \cup [fn : {"mapGitLabStatus"}, a : Nullable(NativeValues), b : {None}]
  /\ mapped = None

Returned(fn, value) ==
  /\ mapCall.fn = fn
  /\ mapped = None
  /\ mapped' = Some(value)
  /\ UNCHANGED <<syncVars, metricsVars, ingestVars, alertVars, dispatchVars, mapCall>>

MapGitHub == Returned("mapGitHubStatus", mapGitHubStatus(mapCall.a, mapCall.b))
MapJenkins == Returned("mapJenkinsStatus", mapJenkinsStatus(mapCall.a, mapCall.b))
MapGitLab == Returned("mapGitLabStatus", mapGitLabStatus(mapCall.a))
MapAzure == Returned("mapAzureStatus", mapAzureStatus(mapCall.a, mapCall.b))
EmitWorkflowRun ==
  Returned("handleWorkflowRunEvent", handleWorkflowRunEvent(mapCall.a, mapCall.b))

(***************************************************************************)
(* The fields each run handler writes, on update and on create alike.      *)
(***************************************************************************)
\* handleGitHubWorkflowRun: completed_at and duration follow conclusion
GitHubFields(e) ==
  [status |-> mapGitHubStatus(Some(e.status), e.conclusion),
   completed_at |-> IF IsSet(e.conclusion) THEN Some(e.updated_at) ELSE None,
   duration |-> IF IsSet(e.conclusion)
                THEN Some(FloorSeconds(e.updated_at - e.created_at)) ELSE None]

\* a handler that stores the duration as the provider gives it
JenkinsFieldsMillis(e) ==
  [status |-> mapJenkinsStatus(e.status, e.result),
   completed_at |-> IF IsSet(e.result) THEN Some(e.timestamp + e.duration) ELSE None,
   duration |-> IF e.duration # 0 THEN Some(e.duration) ELSE None]

\* handleJenkinsBuild: completed_at follows result, duration follows duration
\* (a duration of 0 is falsy)
JenkinsFields(e) ==
  [status |-> mapJenkinsStatus(e.status, e.result),
   completed_at |-> IF IsSet(e.result) THEN Some(e.timestamp + e.duration) ELSE None,
   duration |-> IF e.duration # 0 THEN Some(FloorSeconds(e.duration)) ELSE None]

\* handleGitLabPipeline, one entry of builds: duration || null
GitLabFields(b) ==
  [status |-> mapGitLabStatus(Some(b.status)),
   completed_at |-> b.finished_at,
   duration |-> IF IsSet(b.duration) /\ Val(b.duration) # 0 THEN b.duration ELSE None]

\* handleAzurePipelineRun
AzureFields(e) ==
  [status |-> mapAzureStatus(Some(e.state), e.result),
   completed_at |-> e.finishTime,
   duration |-> IF IsSet(e.startTime) /\ IsSet(e.finishTime)
                THEN Some(FloorSeconds(Val(e.finishTime) - Val(e.startTime)))
                ELSE None]

\* what a push or pull-request handler creates
PendingFields == [status |-> "pending", completed_at |-> None, duration |-> None]

(***************************************************************************)
(* The bodies the providers deliver.                                       *)
(***************************************************************************)
\* Bodies of run 7 range over every combination of the sample values; run 42
\* is a second build of the same pipeline, seen in progress and then succeeded.
GitHubRunBodies(repos) ==
  {e \in [repo : repos, id : RunIds,
          status : {"queued", "in_progress", "completed"},
          conclusion : Nullable({"success", "failure", "cancelled"}),
          created_at : Times, updated_at : Times] :
     e.id = 42 => /\ e.created_at = 0 /\ e.updated_at = 1500
                  /\ <<e.status, e.conclusion>> \in
                       {<<"in_progress", None>>, <<"completed", Some("success")>>}}

JenkinsBuildBodies(names) ==
  {e \in [name : names, number : RunIds,
          status : Nullable({"SUCCESS", "FAILURE", "ABORTED", "IN_PROGRESS", "QUEUED"}),
          result : Nullable({"SUCCESS"}),
          timestamp : Times, duration : {0, 1500}] :
     /\ e.number = 42 =>
          /\ e.timestamp = 0
          /\ <<e.status, e.result, e.duration>> \in
               {<<Some("IN_PROGRESS"), None, 0>>, <<Some("SUCCESS"), Some("SUCCESS"), 1500>>}
     /\ ~IsSet(e.status) => e.result = None /\ e.timestamp = 0 /\ e.duration = 0}

\* The validators of POST /jenkins: of the fields a body of the model may
\* lack, build.status must be a string.
JenkinsValid(e) == IsSet(e.status)

GitLabBuilds ==
  {b \in [id : RunIds, status : {"pending", "running", "success", "failed", "canceled"},
          created_at : Times, finished_at : Nullable(Times),
          duration : Nullable({0, 1})] :
     b.id = 42 => /\ b.created_at = 0
                  /\ <<b.status, b.finished_at, b.duration>> \in
                       {<<"running", None, None>>, <<"success", Some(1500), Some(1)>>}}

AzureRunBodies(projects) ==
  {e \in [project : projects, id : RunIds,
          state : {"notStarted", "inProgress", "completed"},
          result : Nullable({"succeeded", "canceled"}),
          startTime : Nullable(Times), finishTime : Nullable(Times)] :
     e.id = 42 => /\ e.startTime = Some(0)
                  /\ <<e.state, e.result, e.finishTime>> \in
                       {<<"inProgress", None, None>>,
                        <<"completed", Some("succeeded"), Some(1500)>>}}

\* a commit id: its first 8 characters and the rest
Commits == {[first8 |-> "a1b2c3d4", rest |-> "x"], [first8 |-> "a1b2c3d4", rest |-> "y"]}

\* String.prototype.substring(0, 8)
Substring8(c) == c.first8

(***************************************************************************)
(* Lookup and write of one build (the body shared by the run handlers):    *)
(* Build.findOne, then build.update on the row found or Build.create.      *)
(* The result is the set of tables the handler may leave, each with ok =   *)
(* FALSE when the handler threw and did = what it last did to the table.   *)
(* Build.findOne has no ORDER BY: with several matching rows it returns    *)
(* any of them.                                                            *)
(***************************************************************************)
\* the handler without its findOne: whatever arrives is created
UpsertNoLookup(tbl, pid, ext, started, fields) ==
  IF ~ValidBuild(fields) THEN {[tbl |-> tbl, ok |-> FALSE, did |-> "nothing"]}
  ELSE IF Len(tbl) < MaxRows
  THEN {[tbl |-> CreateRow(tbl, pid, ext, started, fields), ok |-> TRUE, did |-> "create"]}
  ELSE {}

Upsert(tbl, pid, ext, started, fields) ==
  LET found == Matching(tbl, pid, ext) IN
  IF ~ValidBuild(fields) THEN {[tbl |-> tbl, ok |-> FALSE, did |-> "nothing"]}
  ELSE IF found # {}
  THEN {[tbl |-> UpdateRow(tbl, i, fields), ok |-> TRUE, did |-> "update"] : i \in found}
  ELSE IF Len(tbl) < MaxRows
  THEN {[tbl |-> CreateRow(tbl, pid, ext, started, fields), ok |-> TRUE, did |-> "create"]}
  ELSE {}

\* Build.create with no lookup before it (the push and pull-request handlers)
Insert(tbl, pid, ext, started, fields) ==
  IF Len(tbl) < MaxRows
  THEN {[tbl |-> CreateRow(tbl, pid, ext, started, fields), ok |-> TRUE, did |-> "create"]}
  ELSE {}

\* if (!pipeline) { logger.warn(...); return; }
Discarded(tbl) == {[tbl |-> tbl, ok |-> TRUE, did |-> "unresolved"]}

\* an early return
Unchanged(tbl) == {[tbl |-> tbl, ok |-> TRUE, did |-> "nothing"]}

\* a route that answers 500 when its handler throws
RespondError(ok) == IF ok THEN 200 ELSE 500

\* The status a webhook route answers with: res.status(200) at the end of its
\* try block, and res.status(200) again in its catch block.
Respond(ok) == IF ok THEN 200 ELSE 200

\* What a delivery came to: valid tells whether the validators passed, ok
\* whether the handler returned rather than threw, signalled whether a
\* build-completed event went out to the alert evaluation (the handlers end
\* in a TODO and emit nothing).
Delivery(o, valid) ==
  [ok |-> o.ok, did |-> o.did, changed |-> o.tbl # builds, valid |-> valid,
   signalled |-> FALSE, code |-> Respond(o.ok)]

\* The route: validation failures are logged, the handler runs all the same,
\* and the answer follows.
AnswerTo(o, valid) ==
  /\ builds' = o.tbl
  /\ last' = Delivery(o, valid)
  /\ UNCHANGED <<syncVars, metricsVars, mapVars, pipeline, inflight, alertVars, dispatchVars>>

Answer(o) == AnswerTo(o, TRUE)

(***************************************************************************)
(* POST /api/webhooks/github                                               *)
(***************************************************************************)
handleGitHubWorkflowRun(tbl, e) ==
  LET p == FindPipeline("github-actions", e.repo) IN
  IF ~IsSet(p) THEN Discarded(tbl)
  ELSE Upsert(tbl, Val(p).id, ToString(e.id), e.created_at, GitHubFields(e))

GitHubWorkflowRun(e) ==
  \E o \in handleGitHubWorkflowRun(builds, e) : Answer(o)

\* Pipeline.findAll: the github-actions pipelines whose branches contain the branch
handleGitHubPush(tbl, e) ==
  IF pipeline.type = "github-actions" /\ e.branch \in pipeline.branches
  THEN Insert(tbl, pipeline.id, "push-" \o Substring8(e.commit), e.timestamp, PendingFields)
  ELSE Unchanged(tbl)

GitHubPush(e) ==
  \E o \in handleGitHubPush(builds, e) : Answer(o)

\* started_at is new Date(), the instant of handling
handleGitHubPullRequest(tbl, e, date) ==
  IF e.action # "opened" /\ e.action # "synchronize" THEN Unchanged(tbl)
  ELSE IF pipeline.type = "github-actions" /\ pipeline.ref = e.repo
  THEN Insert(tbl, pipeline.id, "pr-" \o ToString(e.number), date, PendingFields)
  ELSE Unchanged(tbl)

GitHubPullRequest(e) ==
  \E date \in Clock : \E o \in handleGitHubPullRequest(builds, e, date) : Answer(o)

GitHubPushes == [branch : {"main", "dev"}, commit : Commits, timestamp : {0}]
GitHubPullRequests ==
  [action : {"opened", "closed"}, repo : (Configured("github-actions") \cup {"unknown"}), number : {1}]

(***************************************************************************)
(* POST /api/webhooks/jenkins                                              *)
(***************************************************************************)
handleJenkinsBuild(tbl, e) ==
  LET p == FindPipeline("jenkins", e.name) IN
  IF ~IsSet(p) THEN Discarded(tbl)
  ELSE Upsert(tbl, Val(p).id, ToString(e.number), e.timestamp, JenkinsFields(e))

JenkinsBuild(e) ==
  \E o \in handleJenkinsBuild(builds, e) : AnswerTo(o, JenkinsValid(e))

(***************************************************************************)
(* POST /api/webhooks/gitlab                                               *)
(***************************************************************************)
\* for (const build of builds): a throw ends the loop and keeps what was written
RECURSIVE GitLabLoop(_, _, _, _)
GitLabLoop(tbl, pid, bs, did) ==
  IF bs = <<>> THEN {[tbl |-> tbl, ok |-> TRUE, did |-> did]}
  ELSE LET b == Head(bs) IN
       UNION { IF o.ok THEN GitLabLoop(o.tbl, pid, Tail(bs), o.did) ELSE {o} :
               o \in Upsert(tbl, pid, ToString(b.id), b.created_at, GitLabFields(b)) }

handleGitLabPipeline(tbl, e) ==
  IF e.builds = <<>> THEN Unchanged(tbl)
  ELSE LET p == FindPipeline("gitlab-ci", e.project) IN
       IF ~IsSet(p) THEN Discarded(tbl)
       ELSE GitLabLoop(tbl, Val(p).id, e.builds, "nothing")

GitLabPipeline(e) ==
  \E o \in handleGitLabPipeline(builds, e) : Answer(o)

handleGitLabPush(tbl, e, date) ==
  IF ~IsSet(e.commit) THEN Unchanged(tbl)
  ELSE IF pipeline.type = "gitlab-ci" /\ pipeline.ref = e.project
  THEN Insert(tbl, pipeline.id, "push-" \o Substring8(Val(e.commit)), date, PendingFields)
  ELSE Unchanged(tbl)

GitLabPush(e) ==
  \E date \in Clock : \E o \in handleGitLabPush(builds, e, date) : Answer(o)

\* two-entry bodies: a job reported twice, or two jobs, in one pipeline event
GitLabShortBuilds ==
  {b \in GitLabBuilds : /\ b.status \in {"running", "success"}
                        /\ b.created_at = 0
                        /\ b.finished_at = None /\ b.duration = None}

GitLabBuildLists ==
  {<<>>} \cup {<<b>> : b \in GitLabBuilds}
         \cup {<<b, c>> : b \in GitLabShortBuilds, c \in GitLabShortBuilds}

GitLabPushes == [project : (Configured("gitlab-ci") \cup {"unknown"}), commit : Nullable(Commits)]

(***************************************************************************)
(* POST /api/webhooks/azure                                                *)
(***************************************************************************)
\* started_at is startTime, or new Date() when the body has none
handleAzurePipelineRun(tbl, e, date) ==
  LET p == FindPipeline("azure-devops", e.project) IN
  IF ~IsSet(p) THEN Discarded(tbl)
  ELSE Upsert(tbl, Val(p).id, ToString(e.id),
              IF IsSet(e.startTime) THEN Val(e.startTime) ELSE date,
              AzureFields(e))

AzurePipelineRun(e) ==
  \E date \in Clock : \E o \in handleAzurePipelineRun(builds, e, date) : Answer(o)

\* for (const commit of commits): one Build.create each
RECURSIVE AzurePushLoop(_, _, _, _)
AzurePushLoop(tbl, pid, cs, did) ==
  IF cs = <<>> THEN {[tbl |-> tbl, ok |-> TRUE, did |-> did]}
  ELSE UNION { AzurePushLoop(o.tbl, pid, Tail(cs), o.did) :
               o \in UNION { Insert(tbl, pid, "push-" \o Substring8(Head(cs)), date,
                                    PendingFields) : date \in Clock } }

handleAzureGitPush(tbl, e) ==
  IF e.commits = <<>> THEN Unchanged(tbl)
  ELSE IF pipeline.type = "azure-devops" /\ pipeline.ref = e.project
  THEN AzurePushLoop(tbl, pipeline.id, e.commits, "nothing")
  ELSE Unchanged(tbl)

AzureGitPush(e) ==
  \E o \in handleAzureGitPush(builds, e) : Answer(o)

AzurePushes ==
  [project : (Configured("azure-devops") \cup {"unknown"}),
   commits : {<<>>} \cup {<<c>> : c \in Commits} \cup {<<c, d>> : c \in Commits, d \in Commits}]

\* the requests handled at the same time
Workers == {1, 2}

Idle == [pc |-> "idle"]

NoDelivery ==
  [ok |-> TRUE, did |-> "nothing", changed |-> FALSE, valid |-> TRUE,
   signalled |-> FALSE, code |-> 200]

\* the tables are empty and no request is in flight
InitIngest ==
  /\ builds = <<>>
  /\ last = NoDelivery
  /\ inflight = [w \in Workers |-> Idle]

(***************************************************************************)
(* The notification service (services/alertNotificationService.js).        *)
(***************************************************************************)
\* sendNotification is called with at most MaxChannels channels.
MaxChannels == 3

\* the channels the service has a transport for
Transports == {"slack", "email", "webhook"}

\* the names a channel list may hold: the three above and one more
ChannelNames == Transports \cup {"sms"}

\* what a send function does: it returns a value or throws an Error
Return(v) == [threw |-> FALSE, value |-> v, message |-> ""]
Throw(m) == [threw |-> TRUE, value |-> [success |-> FALSE, error |-> m], message |-> m]

\* axios.post / sendMail: the transport answers or rejects with its error
Post(t) == IF t = "ok" THEN Return([success |-> TRUE, error |-> ""]) ELSE Throw(t)

\* axios.post(url, body, { timeout: 10000 }): a transport that never responds
\* ("hang") makes the call reject when the 10 seconds are over
AxiosPost(t) == IF t = "hang" THEN Throw("timeout of 10000ms exceeded") ELSE Post(t)

\* emailTransporter.sendMail(message): the call and the transporter are given
\* no timeout
SendMail(t) == Post(t)

\* Whether the awaited call of a channel's transport ever settles: an axios
\* call always does, by its answer or by its timeout; sendMail does when the
\* transport responds.
Settles(channel, t) == channel \in {"slack", "webhook"} \/ t # "hang"

sendSlackNotification(cfg, tr) ==
  IF ~cfg["slack"] THEN Throw("Slack webhook URL not configured") ELSE AxiosPost(tr["slack"])

sendEmailNotification(cfg, tr) ==
  IF ~cfg["email"] THEN Throw("Email transporter not configured") ELSE SendMail(tr["email"])

sendWebhookNotification(cfg, tr) ==
  IF ~cfg["webhook"] THEN Throw("Webhook URL not configured") ELSE AxiosPost(tr["webhook"])

\* whether the send function of a channel gets as far as its transport
\* (axios.post, sendMail): the channel has one and it is configured
ReachesTransport(cfg, channel) == channel \in Transports /\ cfg[channel]

\* the switch of sendNotification
SwitchChannel(cfg, tr, channel) ==
  CASE channel = "slack" -> sendSlackNotification(cfg, tr)
    [] channel = "email" -> sendEmailNotification(cfg, tr)
    [] channel = "webhook" -> sendWebhookNotification(cfg, tr)
    [] OTHER -> Return([success |-> FALSE, error |-> "Unknown channel"])

\* the body of the loop without its try/catch
AttemptNoCatch(cfg, tr, channel) ==
  LET r == SwitchChannel(cfg, tr, channel) IN
  [thrown |-> r.threw, result |-> r.value]

\* The body of the loop of sendNotification for one channel: the result it
\* stores and whether anything leaves the loop as an exception.
Attempt(cfg, tr, channel) ==
  LET r == SwitchChannel(cfg, tr, channel) IN
  IF r.threw
  THEN [thrown |-> FALSE, result |-> [success |-> FALSE, error |-> r.message]]
  ELSE [thrown |-> FALSE, result |-> r.value]

\* a loop that would call the send function again after a failure
CallsWithRetry(cfg, tr, channel) ==
  IF Attempt(cfg, tr, channel).result.success THEN <<channel>> ELSE <<channel, channel>>

\* The calls of a send function one turn of the loop makes for its channel:
\* the one of the switch, whatever comes of it.
Calls(cfg, tr, channel) == <<channel>>

RECURSIVE SeqsUpTo(_, _)
SeqsUpTo(S, n) ==
  IF n = 0 THEN {<<>>}
  ELSE LET shorter == SeqsUpTo(S, n - 1) IN
       shorter \cup {Append(q, x) : q \in {r \in shorter : Len(r) = n - 1}, x \in S}

\* AlertHistory.create({ status, triggered_at }): the other columns at their
\* defaults
NewEntry(status, at) ==
  [status |-> status, triggered_at |-> at, resolved_at |-> None,
   resolved_by |-> None, resolution_notes |-> None,
   suppression_reason |-> None,
   notification_sent |-> FALSE, notification_channels |-> None,
   notification_error |-> None]

\* What a history row tells about the channels of its notification: the row
\* has one column for them, notification_channels, so the channels attempted
\* and the channels that succeeded are both read from it.
ChannelsAttempted(entry) ==
  IF IsSet(entry.notification_channels)
  THEN {Val(entry.notification_channels)[i] :
          i \in 1..Len(Val(entry.notification_channels))}
  ELSE {}

ChannelsSucceeded(entry) ==
  IF IsSet(entry.notification_channels)
  THEN {Val(entry.notification_channels)[i] :
          i \in 1..Len(Val(entry.notification_channels))}
  ELSE {}

\* AlertHistory.prototype.markNotificationSent
markNotificationSent(entry, chs, error) ==
  [entry EXCEPT !.notification_sent = TRUE,
                !.notification_channels = Some(chs),
                !.notification_error = error]

\* AlertHistory.prototype.markResolved, at the time at
markResolved(entry, userId, notes, at) ==
  [entry EXCEPT !.status = "resolved",
                !.resolved_at = Some(at),
                !.resolved_by = Some(userId),
                !.resolution_notes = Some(notes)]

\* AlertHistory.prototype.markSuppressed
markSuppressed(entry, reason) ==
  [entry EXCEPT !.status = "suppressed",
                !.suppression_reason = Some(reason)]

\* no call of sendNotification is under way
InitDispatch ==
  /\ channels = <<>>
  /\ config = [t \in Transports |-> FALSE]
  /\ transport = [t \in Transports |-> "ok"]
  /\ pos = 0
  /\ results = [c \in ChannelNames |-> None]
  /\ attempted = <<>>
  /\ dpc = "returned"
  /\ record = NewEntry("triggered", 0)

\* sendNotification(alert, build, channels) has just been called
InitSend ==
  /\ channels \in SeqsUpTo(ChannelNames, MaxChannels)
  /\ config \in [Transports -> BOOLEAN]
  /\ transport \in [Transports -> {"ok", "timeout of 10000ms exceeded"}]
  /\ pos = 0
  /\ results = [c \in ChannelNames |-> None]
  /\ attempted = <<>>
  /\ dpc = "running"
  /\ record = NewEntry("triggered", 0)

\* one turn of the loop
SendChannel ==
  /\ dpc = "running"
  /\ pos < Len(channels)
  /\ LET channel == channels[pos + 1]
         a == Attempt(config, transport, channel) IN
     /\ attempted' = attempted \o Calls(config, transport, channel)
     /\ IF a.thrown
        THEN dpc' = "thrown" /\ UNCHANGED <<pos, results>>
        ELSE /\ results' = [results EXCEPT ![channel] = Some(a.result)]
             /\ pos' = pos + 1
             /\ dpc' = dpc
  /\ UNCHANGED <<syncVars, metricsVars, mapVars, ingestVars, alertVars, channels, config, transport, record>>

\* return results
SendReturn ==
  /\ dpc = "running"
  /\ pos = Len(channels)
  /\ dpc' = "returned"
  /\ UNCHANGED <<syncVars, metricsVars, mapVars, ingestVars, alertVars, channels, config, transport, pos, results,
                 attempted, record>>

\* sendNotification(alert, build, channels) has just been called, and each
\* transport either answers or never responds
InitSendUnanswered ==
  /\ channels \in SeqsUpTo(ChannelNames, MaxChannels)
  /\ config \in [Transports -> BOOLEAN]
  /\ transport \in [Transports -> {"ok", "hang"}]
  /\ pos = 0
  /\ results = [c \in ChannelNames |-> None]
  /\ attempted = <<>>
  /\ dpc = "running"
  /\ record = NewEntry("triggered", 0)

\* A turn of the loop up to its await: the send function of the channel is
\* called; it fails at once when it has no configured transport, and awaits
\* the transport otherwise.
CallSend ==
  /\ dpc = "running"
  /\ pos < Len(channels)
  /\ LET channel == channels[pos + 1]
         a == Attempt(config, transport, channel) IN
     /\ attempted' = attempted \o Calls(config, transport, channel)
     /\ IF ReachesTransport(config, channel)
        THEN dpc' = "awaiting" /\ UNCHANGED <<pos, results>>
        ELSE /\ results' = [results EXCEPT ![channel] = Some(a.result)]
             /\ pos' = pos + 1
             /\ dpc' = dpc
  /\ UNCHANGED <<syncVars, metricsVars, mapVars, ingestVars, alertVars, channels, config, transport, record>>

\* The awaited call settles, by the transport's answer or by the timeout: the
\* turn of the loop stores the result and the loop goes on.
TransportSettles ==
  /\ dpc = "awaiting"
  /\ LET channel == channels[pos + 1]
         a == Attempt(config, transport, channel) IN
     /\ Settles(channel, transport[channel])
     /\ results' = [results EXCEPT ![channel] = Some(a.result)]
     /\ pos' = pos + 1
     /\ dpc' = "running"
  /\ UNCHANGED <<syncVars, metricsVars, mapVars, ingestVars, alertVars, channels, config, transport, attempted,
                 record>>

\* the elements of a sequence
Range(q) == {q[i] : i \in 1..Len(q)}

\* the listed channels whose result says success, in the order of the list
RECURSIVE Succeeded(_, _)
Succeeded(chs, res) ==
  IF chs = <<>> THEN <<>>
  ELSE LET rest == Succeeded(Tail(chs), res) IN
       IF IsSet(res[Head(chs)]) /\ Val(res[Head(chs)]).success
       THEN <<Head(chs)>> \o rest ELSE rest

\* the listed channels whose result says failure
FailedChannels(chs, res) ==
  {c \in Range(chs) : IsSet(res[c]) /\ ~Val(res[c]).success}

\* The caller of sendNotification records the outcome on the history row:
\* markNotificationSent(channels, error) takes one channel list, the attempted
\* or the succeeded one, and an error naming the channels that failed.
RecordNotification ==
  /\ dpc = "returned"
  /\ \E chs \in {channels, Succeeded(channels, results)} :
       record' = markNotificationSent(record, chs,
                   IF FailedChannels(channels, results) = {} THEN None
                   ELSE Some(FailedChannels(channels, results)))
  /\ dpc' = "recorded"
  /\ UNCHANGED <<syncVars, metricsVars, mapVars, ingestVars, alertVars, channels, config, transport, pos, results,
                 attempted>>


(***************************************************************************)
(* The alert rule (database/models/Alert.js, routes/alerts.js).            *)
(***************************************************************************)
\* The clock stops at MaxClock ticks.
MaxClock == 4

\* The alert_history table holds at most MaxHistory rows.
MaxHistory == 2

\* one tick of the clock is a quarter of an hour
MsPerMinute == 60 * 1000
TickMs == 15 * MsPerMinute

\* new Date()
NowMs == now * TickMs

\* cooldown_minutes of the rules considered (the routes accept 1 to 1440)
Cooldowns == {15, 30}

\* canTrigger without its cooldown test
canTriggerNoCooldown(a, t) == a.enabled /\ a.status # "acknowledged"

\* canTrigger without its test of the status
canTriggerIgnoreAck(a, t) ==
  IF ~a.enabled THEN FALSE
  ELSE IF IsSet(a.last_triggered) /\ a.cooldown_minutes > 0
          /\ t < Val(a.last_triggered) + a.cooldown_minutes * 60 * 1000
  THEN FALSE
  ELSE TRUE

\* Alert.prototype.canTrigger, at instant t
canTrigger(a, t) ==
  IF ~a.enabled \/ a.status = "acknowledged" THEN FALSE
  ELSE IF IsSet(a.last_triggered) /\ a.cooldown_minutes > 0
          /\ t < Val(a.last_triggered) + a.cooldown_minutes * 60 * 1000
  THEN FALSE
  ELSE TRUE

\* Alert.prototype.trigger, at instant t
trigger(a, t) == [a EXCEPT !.status = "triggered", !.last_triggered = Some(t)]

\* Alert.prototype.acknowledge and the update of POST /:id/acknowledge
acknowledge(a) == [a EXCEPT !.status = "acknowledged"]

\* Alert.prototype.reset
reset(a) == [a EXCEPT !.status = "active", !.last_triggered = None]

\* alert.update(req.body): every attribute the body names is written
update(a, body) ==
  [enabled |-> IF IsSet(body.enabled) THEN Val(body.enabled) ELSE a.enabled,
   cooldown_minutes |-> IF IsSet(body.cooldown_minutes)
                        THEN Val(body.cooldown_minutes) ELSE a.cooldown_minutes,
   status |-> IF IsSet(body.status) THEN Val(body.status) ELSE a.status,
   last_triggered |-> IF IsSet(body.last_triggered)
                      THEN Val(body.last_triggered) ELSE a.last_triggered]

\* Bodies of PUT /api/alerts/:id.  enabled and cooldown_minutes are validated;
\* status and last_triggered are attributes of the model that no validator
\* names and alert.update writes all the same.
UpdateBodies ==
  [enabled : Nullable(BOOLEAN), cooldown_minutes : Nullable(Cooldowns),
   status : Nullable({"active"}), last_triggered : Nullable({None})]

\* a rule as POST /api/alerts creates it, its cooldown_minutes one of cds
NewAlert(cds) ==
  /\ alert \in [enabled : {TRUE}, cooldown_minutes : cds,
                status : {"active"}, last_triggered : {None}]
  /\ now = 0
  /\ history = <<>>
  /\ evals = [w \in Workers |-> "idle"]
  /\ lastOp = [op |-> "none", cond |-> FALSE, fired |-> FALSE, was |-> "active", prev |-> None]
  /\ lastTrig = None

Op(op) ==
  [op |-> op, cond |-> FALSE, fired |-> FALSE, was |-> alert.status,
   prev |-> alert.last_triggered]

Tick ==
  /\ now < MaxClock
  /\ now' = now + 1
  /\ lastOp' = Op("tick")
  /\ UNCHANGED <<syncVars, metricsVars, mapVars, ingestVars, dispatchVars, alert, history, evals, lastTrig>>

\* One evaluation of the rule, cond telling whether its condition holds: when
\* it does and canTrigger() allows, trigger() and a history row for the
\* trigger.
Evaluate(cond) ==
  LET fire == cond /\ canTrigger(alert, NowMs) IN
  /\ fire => Len(history) < MaxHistory
  /\ alert' = IF fire THEN trigger(alert, NowMs) ELSE alert
  /\ history' = IF fire THEN Append(history, NewEntry("triggered", NowMs)) ELSE history
  /\ lastTrig' = IF fire THEN Some(NowMs) ELSE lastTrig
  /\ lastOp' = [Op("evaluate") EXCEPT !.cond = cond, !.fired = fire]
  /\ UNCHANGED <<syncVars, metricsVars, mapVars, ingestVars, dispatchVars, now, evals>>

\* POST /api/alerts/:id/acknowledge: the update, then AlertHistory.create
Acknowledge ==
  /\ Len(history) < MaxHistory
  /\ alert' = acknowledge(alert)
  /\ history' = Append(history, NewEntry("acknowledged", NowMs))
  /\ lastOp' = Op("acknowledge")
  /\ UNCHANGED <<syncVars, metricsVars, mapVars, ingestVars, dispatchVars, now, evals, lastTrig>>

Reset ==
  /\ alert' = reset(alert)
  /\ lastOp' = Op("reset")
  /\ UNCHANGED <<syncVars, metricsVars, mapVars, ingestVars, dispatchVars, now, history, evals, lastTrig>>

\* PUT /api/alerts/:id
UpdateAlert(body) ==
  /\ alert' = update(alert, body)
  /\ lastOp' = Op("update")
  /\ UNCHANGED <<syncVars, metricsVars, mapVars, ingestVars, dispatchVars, now, history, evals, lastTrig>>

InitRule ==
  /\ pipeline \in {p \in Pipelines : p.type = "github-actions"}
  /\ InitIngest
  /\ InitMap
  /\ InitNoMetrics
  /\ InitNoSync
  /\ NewAlert(Cooldowns)
  /\ InitDispatch

NextRule ==
  \/ Tick
  \/ \E cond \in BOOLEAN : Evaluate(cond)
  \/ Acknowledge
  \/ Reset
  \/ \E body \in UpdateBodies : UpdateAlert(body)

\* operations on the rule, one at a time
SpecRule == InitRule /\ [][NextRule]_vars

\* The users and the texts given to the methods of a history row.
UserIds == {1}
Notes == {"fixed"}

\* row i of the history is marked resolved and saved
MarkResolved(i) ==
  /\ \E userId \in UserIds, notes \in Notes :
       history' = [history EXCEPT ![i] = markResolved(@, userId, notes, NowMs)]
  /\ lastOp' = Op("markResolved")
  /\ UNCHANGED <<syncVars, metricsVars, mapVars, ingestVars, dispatchVars, alert, now, evals, lastTrig>>

\* row i of the history is marked suppressed and saved
MarkSuppressed(i) ==
  /\ \E reason \in Notes :
       history' = [history EXCEPT ![i] = markSuppressed(@, reason)]
  /\ lastOp' = Op("markSuppressed")
  /\ UNCHANGED <<syncVars, metricsVars, mapVars, ingestVars, dispatchVars, alert, now, evals, lastTrig>>

\* the notification of row i is recorded on it and the row saved
MarkNotificationSent(i) ==
  /\ \E chs \in {<<"slack">>} :
       history' = [history EXCEPT ![i] = markNotificationSent(@, chs, None)]
  /\ lastOp' = Op("markNotificationSent")
  /\ UNCHANGED <<syncVars, metricsVars, mapVars, ingestVars, dispatchVars, alert, now, evals, lastTrig>>

InitHistory ==
  /\ pipeline \in {p \in Pipelines : p.type = "github-actions"}
  /\ InitIngest
  /\ InitMap
  /\ InitNoMetrics
  /\ InitNoSync
  /\ NewAlert({30})
  /\ InitDispatch

NextHistory ==
  \/ Evaluate(TRUE)
  \/ Acknowledge
  \/ \E i \in 1..Len(history) : MarkResolved(i)
  \/ \E i \in 1..Len(history) : MarkSuppressed(i)
  \/ \E i \in 1..Len(history) : MarkNotificationSent(i)

\* the rows of the history written, and the methods of a row called on them,
\* within one tick of the clock
SpecHistory == InitHistory /\ [][NextHistory]_vars

\* An evaluation whose condition holds, as far as its canTrigger(): it goes on
\* to trigger() when the answer is true.
CheckGate(w) ==
  /\ evals[w] = "idle"
  /\ evals' = [evals EXCEPT ![w] = IF canTrigger(alert, NowMs) THEN "passed" ELSE "idle"]
  /\ lastOp' = [Op("check") EXCEPT !.cond = TRUE]
  /\ UNCHANGED <<syncVars, metricsVars, mapVars, ingestVars, dispatchVars, alert, now, history, lastTrig>>

\* the trigger() of an evaluation that passed
TriggerSave(w) ==
  /\ evals[w] = "passed"
  /\ alert' = trigger(alert, NowMs)
  /\ lastTrig' = Some(NowMs)
  /\ evals' = [evals EXCEPT ![w] = "idle"]
  /\ lastOp' = [Op("evaluate") EXCEPT !.cond = TRUE, !.fired = TRUE]
  /\ UNCHANGED <<syncVars, metricsVars, mapVars, ingestVars, dispatchVars, now, history>>

NextRuleRace ==
  \/ Tick
  \/ \E w \in Workers : CheckGate(w)
  \/ \E w \in Workers : TriggerSave(w)

\* evaluations of one rule running at the same time
SpecRuleRace == InitRule /\ [][NextRuleRace]_vars

InitDispatching ==
  /\ pipeline \in {p \in Pipelines : p.type = "github-actions"}
  /\ InitIngest
  /\ InitMap
  /\ InitNoMetrics
  /\ InitNoSync
  /\ NewAlert({30})
  /\ InitSend

NextDispatch == SendChannel \/ SendReturn \/ RecordNotification

\* one call of sendNotification, from its call to the record of its outcome
SpecDispatch == InitDispatching /\ [][NextDispatch]_vars

InitAwaiting ==
  /\ pipeline \in {p \in Pipelines : p.type = "github-actions"}
  /\ InitIngest
  /\ InitMap
  /\ InitNoMetrics
  /\ InitNoSync
  /\ NewAlert({30})
  /\ InitSendUnanswered

NextAwait == CallSend \/ TransportSettles \/ SendReturn

\* One call of sendNotification with its awaits. The service runs on: its own
\* steps are taken when they can be, and so is the settling of a call that
\* can settle.
SpecTimeouts ==
  /\ InitAwaiting /\ [][NextAwait]_vars
  /\ WF_vars(CallSend) /\ WF_vars(TransportSettles) /\ WF_vars(SendReturn)

(***************************************************************************)
(* Metrics (routes/metrics.js, routes/builds.js): figures computed from    *)
(* the builds a request has read.  A rate is an exact fraction num/den; a  *)
(* figure rounded to two decimals is an integer number of hundredths.      *)
(***************************************************************************)
\* A metrics request reads at most MaxSample builds, or one of the long
\* samples.
MaxSample == 3

\* the sizes of the long samples
LongSizes == {20, 25}

\* the durations, in seconds, of the short samples
Durations == {None, Some(0), Some(30), Some(60), Some(90)}

\* the builds Build.findAll may return: any statuses; any durations; and
\* long runs of builds from the slowest to the fastest
Samples ==
  SeqsUpTo([status : CanonicalStatuses, duration : {Some(60)}], MaxSample)
    \cup SeqsUpTo([status : {"success"}, duration : Durations], MaxSample)
    \cup {[i \in 1..n |-> [status |-> IF i % 2 = 0 THEN "success" ELSE "failed",
                           duration |-> Some(30 * (n + 1 - i))]] : n \in LongSizes}

\* builds.reduce((acc, build) => { acc[build.status] = (acc[build.status] || 0) + 1 })
statusCounts(bs) ==
  [s \in {bs[i].status : i \in 1..Len(bs)} |->
     Cardinality({i \in 1..Len(bs) : bs[i].status = s})]

\* statusCounts.success || 0
OrZero(counts, s) == IF s \in DOMAIN counts THEN counts[s] ELSE 0

\* a rate that is not taken over the total
successRateUnscaled(successfulBuilds, totalBuilds) ==
  IF totalBuilds > 0 THEN [num |-> successfulBuilds * 100, den |-> 1]
  ELSE [num |-> 0, den |-> 1]

\* totalBuilds > 0 ? (successfulBuilds / totalBuilds) * 100 : 0
successRate(successfulBuilds, totalBuilds) ==
  IF totalBuilds > 0 THEN [num |-> successfulBuilds * 100, den |-> totalBuilds]
  ELSE [num |-> 0, den |-> 1]

\* Math.round(x * 100) / 100, in hundredths: to the nearest, a half upwards
Round2(x) == (2 * x.num * 100 + x.den) \div (2 * x.den)

\* builds.filter(b => b.duration && b.duration > 0).map(b => b.duration)
allDurations(bs) ==
  LET kept == SelectSeq(bs, LAMBDA b : IsSet(b.duration) /\ Val(b.duration) > 0) IN
  [i \in 1..Len(kept) |-> Val(kept[i].duration)]

\* a sort that leaves the array as it is
Unsorted(q) == q

\* allDurations.sort((a, b) => a - b): ascending
RECURSIVE SortInto(_, _)
SortInto(x, q) ==
  IF q = <<>> THEN <<x>>
  ELSE IF x <= Head(q) THEN <<x>> \o q
  ELSE <<Head(q)>> \o SortInto(x, Tail(q))

RECURSIVE SortAscending(_)
SortAscending(q) ==
  IF q = <<>> THEN <<>> ELSE SortInto(Head(q), SortAscending(Tail(q)))

sort(q) == SortAscending(q)

\* Math.floor(n * p) for p = pct / 100 (for n / 2, pct = 50)
FloorOf(n, pct) == (n * pct) \div 100

\* array[i], the first element at index 0
At(q, i) == q[i + 1]

\* GET /api/metrics/dashboard: overview
DashboardOverview(bs) ==
  LET counts == statusCounts(bs)
      rate == successRate(OrZero(counts, "success"), Len(bs)) IN
  [NoReport EXCEPT
     !.endpoint = "dashboard",
     !.total_builds = Len(bs),
     !.successful = OrZero(counts, "success"),
     !.successRate = rate,
     !.success_rate = Round2(rate),
     !.status_distribution =
        [s \in {"success", "failed", "running", "pending"} |-> OrZero(counts, s)]]

\* GET /api/metrics/pipelines/:id and GET /api/builds/metrics/summary: summary
Summary(endpoint, bs) ==
  LET counts == statusCounts(bs)
      rate == successRate(OrZero(counts, "success"), Len(bs)) IN
  [NoReport EXCEPT
     !.endpoint = endpoint,
     !.total_builds = Len(bs),
     !.successful = OrZero(counts, "success"),
     !.successRate = rate,
     !.success_rate = Round2(rate),
     !.status_distribution = counts]

\* GET /api/metrics/performance: the query keeps the success and failed
\* builds; the benchmarks of their durations
Performance(bs) ==
  LET found == SelectSeq(bs, LAMBDA b : b.status \in {"success", "failed"})
      sortedDurations == sort(allDurations(found))
      n == Len(sortedDurations)
      index == [median |-> FloorOf(n, 50), p95 |-> FloorOf(n, 95), p99 |-> FloorOf(n, 99)] IN
  [NoReport EXCEPT
     !.endpoint = "performance",
     !.total_builds = Len(found),
     !.sortedDurations = sortedDurations,
     !.index = index,
     !.median = IF n > 0 THEN At(sortedDurations, index.median) ELSE 0,
     !.p95 = IF n > 0 THEN At(sortedDurations, index.p95) ELSE 0,
     !.p99 = IF n > 0 THEN At(sortedDurations, index.p99) ELSE 0]

\* a metrics request is answered
Answered(r) ==
  /\ report = NoReport
  /\ report' = r
  /\ UNCHANGED <<syncVars, ingestVars, alertVars, dispatchVars, mapVars, sample>>

GetDashboard == Answered(DashboardOverview(sample))
GetPipelineMetrics == Answered(Summary("pipelines/:id", sample))
GetBuildSummary == Answered(Summary("builds/metrics/summary", sample))
GetPerformance == Answered(Performance(sample))

\* a metrics request has read its builds
InitMetrics ==
  /\ pipeline \in {p \in Pipelines : p.type = "github-actions"}
  /\ InitIngest
  /\ InitMap
  /\ NewAlert({30})
  /\ InitDispatch
  /\ sample \in Samples
  /\ report = NoReport
  /\ InitNoSync

NextMetrics == GetDashboard \/ GetPipelineMetrics \/ GetBuildSummary \/ GetPerformance

\* one metrics request, on any builds
SpecMetrics == InitMetrics /\ [][NextMetrics]_vars

(***************************************************************************)
(* Sequential deliveries: each webhook request is handled to its answer    *)
(* before the next one arrives.                                            *)
(***************************************************************************)
Init ==
  /\ pipeline \in Pipelines
  /\ InitIngest
  /\ InitMap
  /\ InitNoMetrics
  /\ InitNoSync
  /\ NewAlert({30})
  /\ InitDispatch

\* The bodies delivered name the configured pipeline or, one sample of each
\* kind, a repository, job or project no pipeline is configured for.
GitHubRuns ==
  GitHubRunBodies(Configured("github-actions"))
    \cup {e \in GitHubRunBodies({"unknown"}) : e.id = 42 /\ e.status = "completed"}

JenkinsBuilds ==
  JenkinsBuildBodies(Configured("jenkins"))
    \cup {e \in JenkinsBuildBodies({"unknown"}) : e.number = 42 /\ e.status = Some("SUCCESS")}

GitLabPipelines ==
  [project : Configured("gitlab-ci"), builds : GitLabBuildLists]
    \cup [project : {"unknown"}, builds : {<<b>> : b \in {x \in GitLabBuilds : x.id = 42}}]

AzureRuns ==
  AzureRunBodies(Configured("azure-devops"))
    \cup {e \in AzureRunBodies({"unknown"}) : e.id = 42 /\ e.state = "completed"}

Next ==
  \/ \E e \in GitHubRuns : GitHubWorkflowRun(e)
  \/ \E e \in GitHubPushes : GitHubPush(e)
  \/ \E e \in GitHubPullRequests : GitHubPullRequest(e)
  \/ \E e \in JenkinsBuilds : JenkinsBuild(e)
  \/ \E e \in GitLabPipelines : GitLabPipeline(e)
  \/ \E e \in GitLabPushes : GitLabPush(e)
  \/ \E e \in AzureRuns : AzurePipelineRun(e)
  \/ \E e \in AzurePushes : AzureGitPush(e)

Spec == Init /\ [][Next]_vars

(***************************************************************************)
(* Properties of ingestion.                                                *)
(***************************************************************************)
\* the rows of the pipeline's build ext
RowsOf(tbl, ext) == Matching(tbl, pipeline.id, ext)

\* the stored status, completed_at and duration of rows i of t1 and j of t2 agree
SameResult(t1, i, t2, j) ==
  /\ t1[i].status = t2[j].status
  /\ t1[i].completed_at = t2[j].completed_at
  /\ t1[i].duration = t2[j].duration

\* Handling body e with handler h (from table t to a set of outcomes) a second
\* time, after a first delivery that was answered without error, leaves one row
\* for each build of the body, with the values the first delivery stored.
Redelivered(h(_, _), e, exts) ==
  \A o1 \in h(builds, e) :
    (o1.ok /\ o1.did \in {"create", "update"}) =>
      \A o2 \in h(o1.tbl, e) :
        /\ o2.ok
        /\ \A ext \in exts :
             /\ Cardinality(RowsOf(o1.tbl, ext)) = 1
             /\ Cardinality(RowsOf(o2.tbl, ext)) = 1
             /\ \A i \in RowsOf(o1.tbl, ext), j \in RowsOf(o2.tbl, ext) :
                  SameResult(o1.tbl, i, o2.tbl, j)

AzureNow(tbl, e) == UNION {handleAzurePipelineRun(tbl, e, date) : date \in Clock}

\* C1: a run event of a known pipeline that is delivered again, any number of
\* times in a row, leaves exactly one Build row with its (pipeline_id,
\* external_id), holding the status, completed_at and duration that the first
\* delivery stored.  (Every reachable table is a table a first delivery may
\* find, and the table it leaves is reachable too, so the second delivery
\* stands for every later one.)
C1_RedeliveryIdempotent ==
  /\ \A e \in GitHubRuns : Redelivered(handleGitHubWorkflowRun, e, {ToString(e.id)})
  /\ \A e \in JenkinsBuilds : Redelivered(handleJenkinsBuild, e, {ToString(e.number)})
  /\ \A e \in GitLabPipelines :
       Redelivered(handleGitLabPipeline, e, {ToString(e.builds[k].id) : k \in 1..Len(e.builds)})
  /\ \A e \in AzureRuns : Redelivered(AzureNow, e, {ToString(e.id)})

\* a run event was delivered to a table that held its build already, and its
\* update stored the values the row had
C1_Witness ==
  /\ last.ok /\ last.did = "update" /\ ~last.changed
  /\ \E i \in 1..Len(builds) : builds[i].status \in TerminalStatuses

\* C2: after any sequence of webhook deliveries no two Build rows share the same
\* (pipeline_id, external_id); a push (push-<first 8 characters of the commit
\* id>) or a pull request (pr-<number>) delivered again adds no second row.
C2_UniqueKeys ==
  \A i, j \in 1..Len(builds) :
    (builds[i].pipeline_id = builds[j].pipeline_id
       /\ builds[i].external_id = builds[j].external_id) => i = j

\* C3: the stored status of a Build never moves backwards in the order
\* pending < running < terminal; a terminal Build stays terminal when a later
\* delivery for its key reports pending or running.
C3_NoRegression ==
  [][\A i \in 1..Len(builds) : Rank(builds'[i].status) >= Rank(builds[i].status)]_vars

\* C4: a terminal Build has no outgoing transition: no later delivery changes
\* its status to another terminal value or resets its completed_at and
\* duration to null.
C4_TerminalIsFinal ==
  [][\A i \in 1..Len(builds) :
       builds[i].status \in TerminalStatuses =>
         /\ builds'[i].status \in TerminalStatuses => builds'[i].status = builds[i].status
         /\ IsSet(builds[i].completed_at) => IsSet(builds'[i].completed_at)
         /\ IsSet(builds[i].duration) => IsSet(builds'[i].duration)]_vars

(***************************************************************************)
(* Concurrent deliveries.  A handler awaits Build.findOne and then awaits  *)
(* build.update or Build.create; between the two, the handler of another   *)
(* request may run.  inflight[w] holds what handler w found and is about   *)
(* to write.                                                               *)
(***************************************************************************)
\* handleGitHubWorkflowRun up to the answer of Build.findOne
LookupGitHubWorkflowRun(w, e) ==
  /\ inflight[w] = Idle
  /\ LET p == FindPipeline("github-actions", e.repo)
         found == Matching(builds, Val(p).id, ToString(e.id)) IN
     /\ IsSet(p)
     /\ \E row \in (IF found = {} THEN {None} ELSE {Some(i) : i \in found}) :
          inflight' = [inflight EXCEPT ![w] =
                         [pc |-> "write", pid |-> Val(p).id, ext |-> ToString(e.id),
                          started |-> e.created_at, fields |-> GitHubFields(e),
                          row |-> row]]
  /\ UNCHANGED <<syncVars, metricsVars, mapVars, pipeline, builds, last, alertVars, dispatchVars>>

\* the rest of the handler: build.update on the row found, or Build.create
WriteFound(tbl, h) ==
  IF ~ValidBuild(h.fields) THEN {[tbl |-> tbl, ok |-> FALSE, did |-> "nothing"]}
  ELSE IF IsSet(h.row)
  THEN {[tbl |-> UpdateRow(tbl, Val(h.row), h.fields), ok |-> TRUE, did |-> "update"]}
  ELSE Insert(tbl, h.pid, h.ext, h.started, h.fields)

WriteGitHubWorkflowRun(w) ==
  /\ inflight[w] # Idle
  /\ \E o \in WriteFound(builds, inflight[w]) :
       /\ builds' = o.tbl
       /\ last' = Delivery(o, TRUE)
  /\ inflight' = [inflight EXCEPT ![w] = Idle]
  /\ UNCHANGED <<syncVars, metricsVars, mapVars, pipeline, alertVars, dispatchVars>>

\* the workflow-run bodies delivered concurrently: one run, seen queued, in
\* progress, succeeded and failed
ConcurrentRuns ==
  {e \in GitHubRunBodies(Configured("github-actions")) :
     /\ e.id = 7 /\ e.created_at = 0 /\ e.updated_at = 1500
     /\ <<e.status, e.conclusion>> \in
          {<<"queued", None>>, <<"in_progress", None>>,
           <<"completed", Some("success")>>, <<"completed", Some("failure")>>}}

InitRace ==
  /\ pipeline \in {p \in Pipelines : p.type = "github-actions"}
  /\ InitIngest
  /\ InitMap
  /\ InitNoMetrics
  /\ InitNoSync
  /\ NewAlert({30})
  /\ InitDispatch

NextRace ==
  \/ \E w \in Workers, e \in ConcurrentRuns : LookupGitHubWorkflowRun(w, e)
  \/ \E w \in Workers : WriteGitHubWorkflowRun(w)

SpecRace == InitRace /\ [][NextRace]_vars

\* C5: when two deliveries for the same, not yet stored key are handled
\* concurrently, no interleaving of their lookups and writes reaches a state
\* with two rows for the key.
C5_OneRowUnderRace ==
  \A ext \in {ToString(n) : n \in RunIds} : Cardinality(RowsOf(builds, ext)) <= 1

(***************************************************************************)
(* The alert rule: cooldown and suppression.                               *)
(***************************************************************************)
\* the end of the cooldown of rule a
CooldownEnd(a) == Val(a.last_triggered) + a.cooldown_minutes * MsPerMinute

\* C6: of two evaluations of one rule running at the same time, at most one
\* passes the cooldown gate and sets last_triggered: a trigger is written
\* only at an instant at which the rule can trigger.
C6_OneEvaluationPasses == [][lastOp'.fired => canTrigger(alert, NowMs)]_vars

\* C7: an evaluation of a triggered rule whose condition holds is suppressed
\* while now < last_triggered + cooldown_minutes and leaves the rule as it
\* is; from that instant on it triggers the enabled rule again, its status
\* still triggered.
C7_CooldownGate ==
  [][(lastOp'.op = "evaluate" /\ lastOp'.cond
      /\ alert.status = "triggered" /\ IsSet(alert.last_triggered)) =>
       /\ NowMs < CooldownEnd(alert) => ~lastOp'.fired /\ alert' = alert
       /\ (NowMs >= CooldownEnd(alert) /\ alert.enabled) =>
            /\ lastOp'.fired
            /\ alert' = [alert EXCEPT !.last_triggered = Some(NowMs)]]_vars

\* a triggered rule has triggered again, its cooldown over
C7_Witness ==
  /\ lastOp.op = "evaluate" /\ lastOp.fired
  /\ lastOp.was = "triggered" /\ IsSet(lastOp.prev)
  /\ NowMs >= Val(lastOp.prev) + alert.cooldown_minutes * MsPerMinute
  /\ alert.last_triggered = Some(NowMs)

C9_CooldownBetweenTriggers ==
  [][(lastOp'.fired /\ IsSet(lastTrig)) =>
       NowMs - Val(lastTrig) >= alert.cooldown_minutes * MsPerMinute]_vars

(***************************************************************************)
(* The notification service.                                               *)
(***************************************************************************)
\* the error of a channel that fails, None for one that does not
Failure(channel) ==
  CASE channel \notin Transports -> Some("Unknown channel")
    [] channel = "slack" /\ ~config[channel] -> Some("Slack webhook URL not configured")
    [] channel = "email" /\ ~config[channel] -> Some("Email transporter not configured")
    [] channel = "webhook" /\ ~config[channel] -> Some("Webhook URL not configured")
    [] channel \in Transports /\ config[channel] /\ transport[channel] # "ok" ->
         Some(transport[channel])
    [] OTHER -> None

\* C10: sendNotification never throws, and when it returns it has attempted
\* every listed channel, in order, and holds a result for each of them: for
\* a channel that fails, success false and the error text.
C10_EveryChannelAttempted ==
  /\ dpc # "thrown"
  /\ dpc = "returned" =>
       /\ attempted = channels
       /\ \A i \in 1..Len(channels) :
            LET channel == channels[i] IN
            /\ IsSet(results[channel])
            /\ IF IsSet(Failure(channel))
               THEN Val(results[channel]) =
                      [success |-> FALSE, error |-> Val(Failure(channel))]
               ELSE Val(results[channel]).success

\* a call has returned after a channel that failed and a later one that did not
C10_Witness ==
  /\ dpc = "returned"
  /\ \E i, j \in 1..Len(channels) :
       /\ i < j
       /\ IsSet(Failure(channels[i])) /\ ~Val(results[channels[i]]).success
       /\ ~IsSet(Failure(channels[j])) /\ Val(results[channels[j]]).success

\* C11: after a dispatch to slack and email in which slack failed and email
\* succeeded, the history row tells the channels attempted, slack and email,
\* from the channels that succeeded, email alone, and its error names slack
\* only.
C11_RecordDistinguishes ==
  (/\ dpc = "recorded"
   /\ Range(channels) = {"slack", "email"}
   /\ IsSet(Failure("slack")) /\ ~IsSet(Failure("email"))) =>
    /\ ChannelsAttempted(record) = {"slack", "email"}
    /\ ChannelsSucceeded(record) = {"email"}
    /\ record.notification_error = Some({"slack"})

(***************************************************************************)
(* Webhook ingestion: signals, answers, discarded deliveries.              *)
(***************************************************************************)
\* the rows of the table after a step whose status the step made terminal
NewlyTerminal ==
  {i \in 1..Len(builds') :
     /\ builds'[i].status \in TerminalStatuses
     /\ i <= Len(builds) => builds[i].status \notin TerminalStatuses}

\* C12: a delivery that moves a Build into a terminal status causes one alert
\* evaluation for its pipeline, and a delivery that moves none causes none.
C12_OneEvaluationPerCompletion ==
  [][last'.signalled <=> NewlyTerminal # {}]_vars

\* C13: every delivery to a webhook endpoint is answered with a 2xx status,
\* whether its body is valid or not, its pipeline resolved or not, and
\* whether its handler returned or threw.
C13_AlwaysAcknowledged == last.code >= 200 /\ last.code <= 299

\* the handler of the last delivery threw, and the answer was 200
C13_Witness == ~last.ok /\ last.code = 200

\* C14: a delivery whose body fails validation creates no Build row and
\* changes no field of any Build row.
C14_InvalidBodyDiscarded == [][~last'.valid => builds' = builds]_vars

\* the workflow-run, build, pipeline and run bodies that name a repository,
\* job or project no pipeline is configured for
UnresolvedOutcomes ==
  UNION ({handleGitHubWorkflowRun(builds, e) : e \in GitHubRunBodies({"unknown"})}
         \cup {handleJenkinsBuild(builds, e) : e \in JenkinsBuildBodies({"unknown"})}
         \cup {handleGitLabPipeline(builds, e) :
                 e \in [project : {"unknown"}, builds : GitLabBuildLists]}
         \cup {AzureNow(builds, e) : e \in AzureRunBodies({"unknown"})})

\* C15: handling a run or build event whose pipeline cannot be resolved leaves
\* the Build rows, and every field of each, as they were.
C15_UnresolvedDiscarded ==
  \A o \in UnresolvedOutcomes : o.ok /\ o.tbl = builds

\* an event of an unknown pipeline was delivered to a table that holds rows
C15_Witness ==
  /\ last.did = "unresolved" /\ last.ok /\ ~last.changed
  /\ Len(builds) > 0

InitMapping ==
  /\ pipeline \in {p \in Pipelines : p.type = "github-actions"}
  /\ builds = <<>>
  /\ last = NoDelivery
  /\ inflight = [w \in Workers |-> Idle]
  /\ NewAlert({30})
  /\ InitDispatch
  /\ InitMapCall
  /\ InitNoMetrics
  /\ InitNoSync

NextMap == MapGitHub \/ MapJenkins \/ MapGitLab \/ MapAzure \/ EmitWorkflowRun

\* one call of a status mapper, on any arguments
SpecMap == InitMapping /\ [][NextMap]_vars

\* C16: whatever its arguments, a status mapper returns one of pending,
\* running, success, failed, cancelled, so that every status stored on a
\* Build or emitted with a build-status event is one of the five.
C16_MappersCanonical == IsSet(mapped) => Val(mapped) \in CanonicalStatuses

\* the arguments of a call of a webhook mapper that the mapper does not
\* recognise: an unknown status or state, or completed with an unknown or
\* missing conclusion or result
Unrecognised(c) ==
  CASE c.fn = "mapGitHubStatus" ->
         \/ c.a \notin {Some(v) : v \in {"completed", "in_progress", "queued", "waiting"}}
         \/ /\ c.a = Some("completed")
            /\ c.b \notin {Some(v) : v \in {"success", "failure", "cancelled", "skipped"}}
    [] c.fn = "mapAzureStatus" ->
         \/ c.a \notin {Some(v) : v \in {"completed", "inProgress", "notStarted", "postponed"}}
         \/ /\ c.a = Some("completed")
            /\ c.b \notin {Some(v) : v \in {"succeeded", "failed", "canceled",
                                            "partiallySucceeded"}}
    [] c.fn = "mapJenkinsStatus" ->
         c.a \notin {Some(v) : v \in {"SUCCESS", "FAILURE", "ABORTED", "UNSTABLE",
                                      "IN_PROGRESS"}}
    [] c.fn = "mapGitLabStatus" ->
         c.a \notin {Some(v) : v \in {"success", "failed", "canceled", "running",
                                      "pending", "skipped"}}
    [] OTHER -> FALSE

\* C17: a webhook mapper maps what it does not recognise to pending.
C17_UnrecognisedIsPending ==
  (IsSet(mapped) /\ Unrecognised(mapCall)) => Val(mapped) = "pending"

\* C18: every Build has a duration that is null or at least 0, and a Build
\* with started_at and completed_at both set has the duration completed_at
\* minus started_at, in whole seconds.
C18_DurationMatchesTimestamps ==
  \A i \in 1..Len(builds) :
    /\ IsSet(builds[i].duration) => Val(builds[i].duration) >= 0
    /\ IsSet(builds[i].completed_at) =>
         builds[i].duration =
           Some(FloorSeconds(Val(builds[i].completed_at) - builds[i].started_at))

(***************************************************************************)
(* The alert history.                                                      *)
(***************************************************************************)
\* C19: the history of a rule has as many rows as the rule has triggered: a
\* step adds one row when it is a trigger and none otherwise, so that a
\* suppressed evaluation and an acknowledgement add nothing.
C19_OneEntryPerTrigger ==
  [][Len(history') = Len(history) + (IF lastOp'.fired THEN 1 ELSE 0)]_vars

\* C20: a history row, once created, is never modified or deleted: every step
\* keeps the rows there are as they are, and may only add rows after them.
C20_HistoryAppendOnly ==
  [][/\ Len(history') >= Len(history)
     /\ \A i \in 1..Len(history) : history'[i] = history[i]]_vars

\* how many times the dispatch has invoked the transport of a channel
Invocations(channel) ==
  Cardinality({i \in 1..Len(attempted) :
                 attempted[i] = channel /\ ReachesTransport(config, channel)})

\* how many times the channel list of the dispatch names a channel
Occurrences(channel) ==
  Cardinality({i \in 1..Len(channels) : channels[i] = channel})

C23_ChannelsIndependent ==
  (dpc = "awaiting" /\ Len(attempted) < Len(channels)) => ENABLED CallSend

(***************************************************************************)
(* Metrics.                                                                *)
(***************************************************************************)
\* the sum of the values of a function to the numbers
RECURSIVE SumOver(_, _)
SumOver(f, keys) ==
  IF keys = {} THEN 0
  ELSE LET k == CHOOSE x \in keys : TRUE IN f[k] + SumOver(f, keys \ {k})

\* the builds of the sample with a status
CountOf(status) == Cardinality({i \in 1..Len(sample) : sample[i].status = status})

\* C24: in every metrics result the values of status_distribution sum to
\* total_builds, whatever the statuses of the builds, cancelled included.
C24_DistributionSumsToTotal ==
  report.endpoint \in {"dashboard", "pipelines/:id", "builds/metrics/summary"} =>
    SumOver(report.status_distribution, DOMAIN report.status_distribution)
      = report.total_builds

\* C25: for any builds, success_rate lies in [0,100], is successful/total*100
\* (the figure computed is exactly that, the figure answered is it rounded to
\* two decimals), and is 0 for no builds.
C25_SuccessRate ==
  report.endpoint \in {"dashboard", "pipelines/:id", "builds/metrics/summary"} =>
    LET total == Len(sample)
        rate == report.successRate IN
    /\ rate.den > 0 /\ 0 <= rate.num /\ rate.num <= 100 * rate.den
    /\ 0 <= report.success_rate /\ report.success_rate <= 100 * 100
    /\ total = 0 => rate.num = 0 /\ report.success_rate = 0
    /\ total > 0 => rate.num * total = CountOf("success") * 100 * rate.den
    /\ 2 * rate.den * report.success_rate <= 2 * rate.num * 100 + rate.den
    /\ 2 * rate.num * 100 + rate.den < 2 * rate.den * (report.success_rate + 1)

\* a request answered a rate strictly between 0 and 100 for builds of which
\* some succeeded and some did not
C25_Witness ==
  /\ report.endpoint \in {"dashboard", "pipelines/:id", "builds/metrics/summary"}
  /\ CountOf("success") > 0 /\ CountOf("success") < Len(sample)
  /\ report.success_rate > 0 /\ report.success_rate < 100 * 100

\* C26: for a non-empty sample of n durations, the median, p95 and p99 are
\* read at indices floor(n/2), floor(n*0.95), floor(n*0.99) of the sample
\* sorted ascending, every index is within the sample, and
\* median <= p95 <= p99.
C26_PercentilesOrdered ==
  (report.endpoint = "performance" /\ report.sortedDurations # <<>>) =>
    LET n == Len(report.sortedDurations) IN
    /\ \A k \in {"median", "p95", "p99"} : 0 <= report.index[k] /\ report.index[k] < n
    /\ report.index.median = n \div 2
    /\ report.index.p95 = (n * 95) \div 100
    /\ report.index.p99 = (n * 99) \div 100
    /\ \A i, j \in 1..n : i <= j => report.sortedDurations[i] <= report.sortedDurations[j]
    /\ report.median <= report.p95 /\ report.p95 <= report.p99

\* a request answered three different percentiles, read at three indices
C26_Witness ==
  /\ report.endpoint = "performance"
  /\ report.index.median < report.index.p95 /\ report.index.p95 < report.index.p99
  /\ report.median < report.p95 /\ report.p95 < report.p99

(***************************************************************************)
(* Scenarios of normalisation.                                             *)
(***************************************************************************)
\* the rows of the pipeline's build ext in the table an outcome leaves
StoredBy(o, ext) == {o.tbl[i] : i \in Matching(o.tbl, pipeline.id, ext)}

\* the scenario's Jenkins event: build 7 of the job, SUCCESS, 120000 ms
JenkinsScenario ==
  [name |-> pipeline.ref, number |-> 7, status |-> Some("SUCCESS"), result |-> None,
   timestamp |-> 0, duration |-> 120000]

PutStatuses == CanonicalStatuses \cup {"skipped"}

\* req.body: status, completed_at, duration, each given or not
PutBodies ==
  [status : Nullable(PutStatuses), completed_at : Nullable({1500}),
   duration : Nullable({0, 5})]

\* a table that lets every status follow every other
validTransitionsAny(status) == Some(PutStatuses \ {status})

\* validTransitions[build.status]: undefined for a status that is no key
validTransitions(status) ==
  CASE status = "pending" -> Some({"running", "cancelled"})
    [] status = "running" -> Some({"success", "failed", "cancelled"})
    [] status \in {"success", "failed", "cancelled"} -> Some({})
    [] OTHER -> None

\* The answer of the validation of the transition: 400 for a target that is
\* not in the list, 500 when the list is undefined (includes throws), and 200
\* when the handler goes on.
TransitionCheck(build, body) ==
  IF ~IsSet(body.status) THEN 200
  ELSE IF ~IsSet(validTransitions(build.status)) THEN 500
  ELSE IF Val(body.status) \notin Val(validTransitions(build.status)) THEN 400
  ELSE 200

\* a value that is given and not 0
Truthy(v) == IsSet(v) /\ Val(v) # 0

\* finalDuration: the duration of the body, or for a terminal status without
\* one the seconds from started_at to new Date()
finalDuration(build, body, date) ==
  IF IsSet(body.status) /\ Val(body.status) \in {"success", "failed", "cancelled"}
     /\ ~Truthy(body.duration)
  THEN Some(FloorSeconds(date - build.started_at))
  ELSE body.duration

\* updateData: the fields of the body that are truthy
updateData(build, body, date) ==
  [status |-> body.status,
   completed_at |-> IF Truthy(body.completed_at) THEN body.completed_at ELSE None,
   duration |-> IF Truthy(finalDuration(build, body, date))
                THEN finalDuration(build, body, date) ELSE None]

\* build.update(updateData) and the answer: the fields given are written; a
\* negative duration fails the validation of the model and the route
\* answers 500
BuildUpdate(tbl, id, data) ==
  IF IsSet(data.duration) /\ Val(data.duration) < 0 THEN [tbl |-> tbl, code |-> 500]
  ELSE [tbl |-> [tbl EXCEPT ![id] =
                   [@ EXCEPT !.status = IF IsSet(data.status) THEN Val(data.status) ELSE @,
                             !.completed_at = IF IsSet(data.completed_at)
                                              THEN data.completed_at ELSE @,
                             !.duration = IF IsSet(data.duration) THEN data.duration ELSE @]],
        code |-> 200]

\* the handler, from Build.findByPk to the answer
putBuild(tbl, id, body, date) ==
  IF id \notin 1..Len(tbl) THEN [tbl |-> tbl, code |-> 404]
  ELSE IF TransitionCheck(tbl[id], body) # 200
  THEN [tbl |-> tbl, code |-> TransitionCheck(tbl[id], body)]
  ELSE BuildUpdate(tbl, id, updateData(tbl[id], body, date))

\* what the last PUT asked for and the answer it got
PutAnswer(id, body, code) == [id |-> id, status |-> body.status, code |-> code]
NoPut == [id |-> 0, status |-> None, code |-> 0]

\* a PUT request handled from its start to its answer
PutBuild(id, body) ==
  /\ \E date \in Clock :
       LET o == putBuild(builds, id, body, date) IN
       /\ builds' = o.tbl
       /\ last' = PutAnswer(id, body, o.code)
  /\ UNCHANGED <<syncVars, metricsVars, mapVars, pipeline, inflight, alertVars, dispatchVars>>

\* The PUT requests are made on a table of at most MaxPutRows builds.
MaxPutRows == 1

\* the builds the table may hold: one per run, in any of the five statuses
PutRows(n) ==
  [1..n -> [pipeline_id : {1}, external_id : {"7"}, status : CanonicalStatuses,
            started_at : {0}, completed_at : {None}, duration : {None}]]

InitPut ==
  /\ pipeline \in {p \in Pipelines : p.type = "github-actions"}
  /\ builds \in UNION {PutRows(n) : n \in 1..MaxPutRows}
  /\ last = NoPut
  /\ inflight = [w \in Workers |-> Idle]
  /\ InitMap
  /\ InitNoMetrics
  /\ InitNoSync
  /\ NewAlert({30})
  /\ InitDispatch

NextPut == \E id \in 1..(MaxPutRows + 1), body \in PutBodies : PutBuild(id, body)

\* PUT requests, one at a time
SpecPut == InitPut /\ [][NextPut]_vars

\* The handler up to its await of build.update: the build is read, the
\* transition validated against the status read and updateData made.
PutRead(w, id, body) ==
  /\ inflight[w] = Idle
  /\ id \in 1..Len(builds)
  /\ \E date \in Clock :
       IF TransitionCheck(builds[id], body) # 200
       THEN /\ last' = PutAnswer(id, body, TransitionCheck(builds[id], body))
            /\ UNCHANGED inflight
       ELSE /\ inflight' = [inflight EXCEPT ![w] =
                              [pc |-> "update", id |-> id, body |-> body,
                               data |-> updateData(builds[id], body, date)]]
            /\ UNCHANGED last
  /\ UNCHANGED <<syncVars, metricsVars, mapVars, pipeline, builds, alertVars, dispatchVars>>

\* the rest of the handler: build.update and the answer
PutWrite(w) ==
  /\ inflight[w] # Idle
  /\ LET h == inflight[w]
         o == BuildUpdate(builds, h.id, h.data) IN
     /\ builds' = o.tbl
     /\ last' = PutAnswer(h.id, h.body, o.code)
  /\ inflight' = [inflight EXCEPT ![w] = Idle]
  /\ UNCHANGED <<syncVars, metricsVars, mapVars, pipeline, alertVars, dispatchVars>>

\* the bodies of the concurrent requests: a status and nothing else
ConcurrentPuts == {body \in PutBodies : ~IsSet(body.completed_at) /\ ~IsSet(body.duration)}

\* one build, pending or running
InitPutRace ==
  /\ pipeline \in {p \in Pipelines : p.type = "github-actions"}
  /\ builds \in {tbl \in PutRows(1) : tbl[1].status \in {"pending", "running"}}
  /\ last = NoPut
  /\ inflight = [w \in Workers |-> Idle]
  /\ InitMap
  /\ InitNoMetrics
  /\ InitNoSync
  /\ NewAlert({30})
  /\ InitDispatch

NextPutRace ==
  \/ \E w \in Workers, body \in ConcurrentPuts : PutRead(w, 1, body)
  \/ \E w \in Workers : PutWrite(w)

\* PUT requests for one build, handled concurrently
SpecPutRace == InitPutRace /\ [][NextPutRace]_vars

\* the table of the transitions a PUT may make
AllowedTargets(from) ==
  CASE from = "pending" -> {"running", "cancelled"}
    [] from = "running" -> {"success", "failed", "cancelled"}
    [] OTHER -> {}

\* C29: through PUT /api/builds/:id every status change made follows the
\* table pending -> {running, cancelled}, running -> {success, failed,
\* cancelled}; a request for a build that names a status outside the table,
\* any status for a build that is success, failed or cancelled included, is
\* answered 400 and leaves the build as it was; a request within the table
\* that is answered 200 has made the change.
C29_TransitionsFollowTable ==
  [][/\ \A i \in 1..Len(builds) :
          builds'[i].status # builds[i].status =>
            builds'[i].status \in AllowedTargets(builds[i].status)
     /\ (last'.id \in 1..Len(builds) /\ IsSet(last'.status)) =>
          IF Val(last'.status) \in AllowedTargets(builds[last'.id].status)
          THEN last'.code = 200 => builds'[last'.id].status = Val(last'.status)
          ELSE last'.code = 400 /\ builds' = builds]_vars

\* a request to change a build that is success, failed or cancelled has been
\* answered 400
C29_Witness ==
  /\ last.code = 400 /\ IsSet(last.status)
  /\ last.id \in 1..Len(builds)
  /\ builds[last.id].status \in TerminalStatuses
  /\ Val(last.status) \in TerminalStatuses \ {builds[last.id].status}

\* C30: when PUT requests for one build are handled concurrently, the status
\* of the build changes at most once after it is running: no step replaces a
\* terminal status by another.
C30_NoTerminalOverwrite ==
  [][\A i \in 1..Len(builds) :
       builds[i].status \in TerminalStatuses => builds'[i].status = builds[i].status]_vars

\* the builds POST /api/builds has created: pending, nothing completed
CreatedRows(n) ==
  [1..n -> [pipeline_id : {1}, external_id : {"7"}, status : {"pending"},
            started_at : {0}, completed_at : {None}, duration : {None}]]

InitPutCreated ==
  /\ pipeline \in {p \in Pipelines : p.type = "github-actions"}
  /\ builds \in UNION {CreatedRows(n) : n \in 1..MaxPutRows}
  /\ last = NoPut
  /\ inflight = [w \in Workers |-> Idle]
  /\ InitMap
  /\ InitNoMetrics
  /\ InitNoSync
  /\ NewAlert({30})
  /\ InitDispatch

\* PUT requests on builds that were created through POST /api/builds
SpecPutCreated == InitPutCreated /\ [][NextPut]_vars

\* C31: in every reachable state a build has a terminal status (success,
\* failed, cancelled) exactly when its completed_at is set: no update leaves a
\* terminal build without completed_at or a pending or running build with it.
C31_TerminalIffCompleted ==
  \A i \in 1..Len(builds) :
    builds[i].status \in TerminalStatuses <=> IsSet(builds[i].completed_at)

\* C32: a PUT /api/alerts/:id leaves the status and last_triggered of the
\* rule as they were: an update neither clears a running cooldown nor turns
\* an acknowledged rule back to active.
C32_UpdateKeepsTriggerState ==
  [][lastOp'.op = "update" =>
       /\ alert'.status = alert.status
       /\ alert'.last_triggered = alert.last_triggered]_vars

(***************************************************************************)
(* The Jenkins sync, the alert service and the notifications routes.       *)
(***************************************************************************)
\* A job of the server has at most MaxJobBuilds builds.
MaxJobBuilds == 1

\* The notifications list is followed up to MaxNotifications entries.
MaxNotifications == 3

\* the jobs of the server, in the order getJobs returns them
JobNames == <<"api", "web">>

\* build numbers; every job numbers its own builds from 1
BuildNumbers == {1, 2}

\* build.result of a build that has finished
JenkinsResults == {"SUCCESS", "FAILURE", "ABORTED", "UNSTABLE"}

\* a build as the server reports it: result is null and duration 0 while it
\* is building
ServerBuilds ==
  [number : BuildNumbers, result : {None}, timestamp : {1000}, duration : {0}]
    \cup [number : BuildNumbers, result : {Some(r) : r \in JenkinsResults},
          timestamp : {1000}, duration : {5000}]

\* the builds of one job: at most MaxJobBuilds, each number once
JobBuilds ==
  {q \in SeqsUpTo(ServerBuilds, MaxJobBuilds) :
     \A i, j \in 1..Len(q) : q[i].number = q[j].number => i = j}

\* what the server may report
ServerStates ==
  {[i \in 1..Len(JobNames) |-> [name |-> JobNames[i], builds |-> b[i]]] :
     b \in [1..Len(JobNames) -> JobBuilds]}

\* getJobs: name and builds of every job, builds || []
getJobs(server) == [i \in 1..Len(server) |-> [name |-> server[i].name, builds |-> server[i].builds]]

\* a lookup that finds nothing
FindOneNothing(tbl, pipeline_id, build_number) == None

\* Build.findOne({ where: { pipeline_id, build_number } }): the id of the first
\* such row, or null
FindOne(tbl, pipeline_id, build_number) ==
  LET found == {i \in 1..Len(tbl) : tbl[i].pipeline_id = pipeline_id
                                     /\ tbl[i].build_number = build_number} IN
  IF found = {} THEN None
  ELSE Some(CHOOSE i \in found : \A j \in found : i <= j)

\* buildStatus: the status of a build created by the sync
buildStatus(result) ==
  CASE result = Some("SUCCESS")  -> "success"
    [] result = Some("FAILURE")  -> "failed"
    [] result = Some("ABORTED")  -> "cancelled"
    [] result = Some("UNSTABLE") -> "failed"
    [] OTHER -> "pending"

\* the row Build.create is given by the sync; commit_hash is
\* `jenkins-${job.name}-${build.number}`
SyncedRow(pipeline_id, job, build) ==
  [pipeline_id |-> pipeline_id, build_number |-> build.number,
   status |-> buildStatus(build.result),
   commit_hash |-> <<"jenkins", job.name, build.number>>,
   started_at |-> build.timestamp,
   completed_at |-> Some(build.timestamp + build.duration),
   duration |-> build.duration]

\* what the transport does with a mail handed to it
MailOutcomes == {"accepted", "rejected"}

\* sendAlertEmail: without transporter the alert is logged and the answer is
\* success: false; otherwise the mail is handed to the transporter, and a
\* rejection is caught and answered success: false
sendAlertEmail(transporter, a, outcome) ==
  IF ~transporter THEN [success |-> FALSE, handed |-> FALSE]
  ELSE [success |-> outcome = "accepted", handed |-> TRUE]

\* the alert object of sendBuildAlert
BuildAlert(build_id, pipeline_id, status, date) ==
  [timestamp |-> date, type |-> "build_status",
   severity |-> IF status = "failed" THEN "high" ELSE "medium",
   build_id |-> build_id, pipeline_id |-> pipeline_id, status |-> status]

\* a sendBuildAlert that stores the alert only when its mail was accepted
sendBuildAlertWhenMailed(list, build_id, pipeline_id, status, date, transporter, outcome) ==
  LET al == BuildAlert(build_id, pipeline_id, status, date)
      emailResult == sendAlertEmail(transporter, al, outcome) IN
  IF emailResult.success
  THEN [notifications |-> Append(list, al), returned |-> Some(al),
        threw |-> FALSE, emailResult |-> emailResult]
  ELSE [notifications |-> list, returned |-> None, threw |-> TRUE,
        emailResult |-> emailResult]

\* sendBuildAlert on a service whose notifications are list: the alert is
\* pushed, the mail is attempted inside its own try, and the alert is returned
sendBuildAlert(list, build_id, pipeline_id, status, date, transporter, outcome) ==
  LET al == BuildAlert(build_id, pipeline_id, status, date) IN
  [notifications |-> Append(list, al), returned |-> Some(al), threw |-> FALSE,
   emailResult |-> sendAlertEmail(transporter, al, outcome)]

\* the pairs (job, build) in the order the two loops of the sync visit them
RECURSIVE JobsAndBuilds(_)
JobsAndBuilds(jobs) ==
  IF jobs = <<>> THEN <<>>
  ELSE [i \in 1..Len(Head(jobs).builds) |-> [job |-> Head(jobs), build |-> Head(jobs).builds[i]]]
         \o JobsAndBuilds(Tail(jobs))

\* One turn of the inner loop: a build that has no row by (pipeline_id,
\* build_number) is created and, when failed, alerted on the alert service of
\* the request; a build that has a row is counted and left as it is.
SyncBuild(st, pl, job, build, date, transporter, outcome) ==
  IF IsSet(FindOne(st.tbl, pl.id, build.number))
  THEN [st EXCEPT !.total_builds = @ + 1]
  ELSE LET row == SyncedRow(pl.id, job, build)
           tbl == Append(st.tbl, row)
           sent == sendBuildAlert(st.alerts, Len(tbl), pl.id, "failed", date,
                                  transporter, outcome) IN
       IF row.status = "failed" /\ ~sent.threw
       THEN [tbl |-> tbl, total_builds |-> st.total_builds + 1,
             synced_builds |-> st.synced_builds + 1,
             alerts_created |-> st.alerts_created + 1,
             alerts |-> sent.notifications]
       ELSE [st EXCEPT !.tbl = tbl, !.total_builds = @ + 1, !.synced_builds = @ + 1]

RECURSIVE SyncLoop(_, _, _, _, _, _)
SyncLoop(st, pl, todo, date, transporter, outcome) ==
  IF todo = <<>> THEN st
  ELSE SyncLoop(SyncBuild(st, pl, Head(todo).job, Head(todo).build, date, transporter, outcome),
                pl, Tail(todo), date, transporter, outcome)

\* GET /api/jenkins/sync/:pipeline_id from Pipeline.findByPk to the answer.
\* up tells whether getJobs got its answer; transporter whether the email
\* service made for the request has its transporter when the alerts are sent.
syncJenkins(tbl, pl, pipeline_id, server, up, date, transporter, outcome) ==
  IF pl.id # pipeline_id \/ pl.type # "jenkins"
  THEN [tbl |-> tbl, answer |-> [NoSync EXCEPT !.code = 404]]
  ELSE IF ~up THEN [tbl |-> tbl, answer |-> [NoSync EXCEPT !.code = 500]]
  ELSE LET st == SyncLoop([tbl |-> tbl, total_builds |-> 0, synced_builds |-> 0,
                           alerts_created |-> 0, alerts |-> <<>>],
                          pl, JobsAndBuilds(getJobs(server)), date, transporter, outcome) IN
       [tbl |-> st.tbl,
        answer |-> [code |-> 200, total_builds |-> st.total_builds,
                    synced_builds |-> st.synced_builds,
                    alerts_created |-> st.alerts_created,
                    alerts |-> st.alerts, seen |-> server]]

\* what the last request of the sync and notifications routes was and what
\* it answered
NoCall == [op |-> "none", code |-> 0, count |-> 0, created |-> 0, returned |-> <<>>]

\* GET /api/jenkins/sync/:pipeline_id, from its start to its answer.  The
\* alerts go to the alert service the handler makes for the request.
SyncJenkins(pipeline_id) ==
  /\ \E up \in BOOLEAN, transporter \in BOOLEAN, outcome \in MailOutcomes :
       LET o == syncJenkins(builds, pipeline, pipeline_id, jenkins, up, NowMs,
                            transporter, outcome) IN
       /\ builds' = o.tbl
       /\ sync' = o.answer
       /\ last' = [NoCall EXCEPT !.op = "sync", !.code = o.answer.code]
  /\ UNCHANGED <<metricsVars, mapVars, pipeline, inflight, alertVars, dispatchVars,
                 jenkins, notifications, emailService, mailed>>

\* a build of the server finishes: it gets its result and its duration
JenkinsReports ==
  /\ \E j \in 1..Len(jenkins), b \in 1..MaxJobBuilds, r \in JenkinsResults :
       /\ b <= Len(jenkins[j].builds)
       /\ ~IsSet(jenkins[j].builds[b].result)
       /\ jenkins' = [jenkins EXCEPT ![j].builds[b].result = Some(r),
                                     ![j].builds[b].duration = 5000]
  /\ last' = [NoCall EXCEPT !.op = "jenkins"]
  /\ UNCHANGED <<metricsVars, mapVars, pipeline, builds, inflight, alertVars, dispatchVars,
                 notifications, sync, emailService, mailed>>

\* the mails asked of the email service of the notifications routes: each
\* with the state of the initialization when it was asked
Asked(m, emailResult, build_id) ==
  [asked |-> Append(m.asked, [build_id |-> build_id, init |-> emailService.init]),
   handed |-> IF emailResult.handed THEN Append(m.handed, build_id) ELSE m.handed]

\* the build and the pipeline of the test alert: 'test-build-1' and
\* 'test-pipeline-1', ids that no row of the tables has, written 0
testBuild == [id |-> 0, build_number |-> 999, status |-> "failed"]
testPipeline == [id |-> 0, name |-> "Test Pipeline"]

\* POST /api/notifications/test
TestAlert ==
  /\ Len(notifications) < MaxNotifications
  /\ \E outcome \in MailOutcomes :
       LET sent == sendBuildAlert(notifications, testBuild.id, testPipeline.id, "failed",
                                  NowMs, emailService.transporter, outcome) IN
       /\ notifications' = sent.notifications
       /\ mailed' = Asked(mailed, sent.emailResult, testBuild.id)
       /\ last' = [NoCall EXCEPT !.op = "test", !.code = IF sent.threw THEN 500 ELSE 200,
                                 !.created = Len(sent.notifications) - Len(notifications),
                                 !.returned = sent.returned]
  /\ UNCHANGED <<metricsVars, mapVars, pipeline, builds, inflight, alertVars, dispatchVars,
                 jenkins, sync, emailService>>

\* the ids of the builds with status failed, in the order of the table
RECURSIVE FailedBuilds(_, _)
FailedBuilds(tbl, from) ==
  IF from > Len(tbl) THEN <<>>
  ELSE (IF tbl[from].status = "failed" THEN <<from>> ELSE <<>>) \o FailedBuilds(tbl, from + 1)

\* the loop of createAlertsForExistingBuilds: sendBuildAlert for every failed
\* build whose pipeline is among pipelines
RECURSIVE AlertEach(_, _, _, _, _, _)
AlertEach(st, tbl, pipelines, failed, date, outcome) ==
  IF failed = <<>> THEN st
  ELSE IF tbl[Head(failed)].pipeline_id \notin {p.id : p \in pipelines}
  THEN AlertEach(st, tbl, pipelines, Tail(failed), date, outcome)
  ELSE LET sent == sendBuildAlert(st.notifications, Head(failed), tbl[Head(failed)].pipeline_id,
                                  "failed", date, emailService.transporter, outcome)
           m == Asked(st.mailed, sent.emailResult, Head(failed)) IN
       IF sent.threw THEN [st EXCEPT !.threw = TRUE]
       ELSE AlertEach([st EXCEPT !.notifications = sent.notifications, !.mailed = m],
                      tbl, pipelines, Tail(failed), date, outcome)

\* createAlertsForExistingBuilds: count is the number of the failed builds
createAlertsForExistingBuilds(list, m, tbl, pipelines, date, outcome) ==
  LET failedBuilds == FailedBuilds(tbl, 1)
      st == AlertEach([notifications |-> list, mailed |-> m, threw |-> FALSE],
                      tbl, pipelines, failedBuilds, date, outcome) IN
  [notifications |-> st.notifications, mailed |-> st.mailed, threw |-> st.threw,
   count |-> Len(failedBuilds)]

\* POST /api/notifications/create-from-builds
CreateFromBuilds ==
  /\ Len(notifications) + Len(FailedBuilds(builds, 1)) <= MaxNotifications
  /\ \E outcome \in MailOutcomes :
       LET o == createAlertsForExistingBuilds(notifications, mailed, builds, {pipeline},
                                              NowMs, outcome) IN
       /\ notifications' = o.notifications
       /\ mailed' = o.mailed
       /\ last' = [NoCall EXCEPT !.op = "create-from-builds",
                                 !.code = IF o.threw THEN 500 ELSE 200,
                                 !.count = o.count,
                                 !.created = Len(o.notifications) - Len(notifications)]
  /\ UNCHANGED <<metricsVars, mapVars, pipeline, builds, inflight, alertVars, dispatchVars,
                 jenkins, sync, emailService>>

\* the sort of getNotifications: by timestamp, the latest first, entries of
\* one timestamp in the order they had
RECURSIVE SortLatestFirst(_)
SortLatestFirst(list) ==
  IF list = <<>> THEN <<>>
  ELSE LET top == CHOOSE i \in 1..Len(list) :
                    /\ \A j \in 1..Len(list) : list[j].timestamp <= list[i].timestamp
                    /\ \A j \in 1..(i - 1) : list[j].timestamp < list[i].timestamp
       IN <<list[top]>> \o SortLatestFirst(SubSeq(list, 1, top - 1)
                                             \o SubSeq(list, top + 1, Len(list)))

\* the limit of getNotifications when the query names none
DefaultLimit == 50

\* slice(0, limit)
Slice(list, limit) == SubSeq(list, 1, IF limit < Len(list) THEN limit ELSE Len(list))

\* GET /api/notifications: getNotifications sorts the list in place and
\* answers with its first limit entries
GetNotifications(limit) ==
  /\ notifications' = SortLatestFirst(notifications)
  /\ last' = [NoCall EXCEPT !.op = "notifications", !.code = 200, !.count = limit,
                            !.returned = Slice(SortLatestFirst(notifications), limit)]
  /\ UNCHANGED <<metricsVars, mapVars, pipeline, builds, inflight, alertVars, dispatchVars,
                 jenkins, sync, emailService, mailed>>

\* initializeTransporter settles: with the test account the transporter is
\* made, without it the transporter stays null
InitializeTransporter(ok) ==
  /\ emailService.init = "pending"
  /\ emailService' = [init |-> IF ok THEN "done" ELSE "failed", transporter |-> ok]
  /\ last' = [NoCall EXCEPT !.op = "initializeTransporter"]
  /\ UNCHANGED <<metricsVars, mapVars, pipeline, builds, inflight, alertVars, dispatchVars,
                 jenkins, notifications, sync, mailed>>

\* the server starts with a jenkins pipeline, an empty builds table and the
\* services as their constructors leave them: no notification, the
\* initialization of the transporter started and not awaited
InitSyncOn(servers) ==
  /\ pipeline \in {p \in Pipelines : p.type = "jenkins"}
  /\ builds = <<>>
  /\ last = NoCall
  /\ inflight = [w \in Workers |-> Idle]
  /\ InitMap
  /\ InitNoMetrics
  /\ NewAlert({30})
  /\ InitDispatch
  /\ jenkins \in servers
  /\ notifications = <<>>
  /\ sync = NoSync
  /\ emailService = [init |-> "pending", transporter |-> FALSE]
  /\ mailed = [asked |-> <<>>, handed |-> <<>>]

InitSync == InitSyncOn(ServerStates)

NextSync ==
  \/ \E pipeline_id \in {1, 2} : SyncJenkins(pipeline_id)
  \/ JenkinsReports

\* syncs of a Jenkins server whose builds finish
SpecSync == InitSync /\ [][NextSync]_vars

\* servers with one job that has builds, all finished
FinishedServers ==
  {s \in ServerStates :
     /\ s[2].builds = <<>>
     /\ \A i \in 1..Len(s[1].builds) : IsSet(s[1].builds[i].result)}

InitNotify == InitSyncOn(FinishedServers)

NextNotify ==
  \/ SyncJenkins(2)
  \/ TestAlert
  \/ CreateFromBuilds
  \/ \E limit \in {DefaultLimit, 1} : GetNotifications(limit)
  \/ \E ok \in BOOLEAN : InitializeTransporter(ok)

\* the notifications routes and the sync, on a server that has just started
SpecNotify == InitNotify /\ [][NextNotify]_vars

\* C33: every call of sendBuildAlert appends exactly one notification to the
\* list of its service and returns it, also when the email transport is not
\* available or reports a failure: the request is answered 200 with the
\* alert, the list is the old one with the alert at its end, and
\* create-from-builds stores one notification per failed build.
C33_AlertStoredAndReturned ==
  [][/\ last'.op = "test" =>
          /\ last'.code = 200
          /\ notifications' = Append(notifications, Val(last'.returned))
     /\ last'.op = "create-from-builds" =>
          /\ last'.code = 200
          /\ Len(notifications') = Len(notifications) + Len(FailedBuilds(builds, 1))
          /\ SubSeq(notifications', 1, Len(notifications)) = notifications
     /\ last'.op = "sync" => sync'.alerts_created = Len(sync'.alerts)]_vars

\* a test alert has been stored and returned although its mail was not handed
\* to any transport
C33_Witness ==
  /\ last.op = "test" /\ last.code = 200
  /\ IsSet(last.returned)
  /\ notifications # <<>>
  /\ notifications[Len(notifications)] = Val(last.returned)
  /\ Len(mailed.handed) < Len(mailed.asked)

\* C34: a sync that follows a sync of the same, unchanged server state creates
\* no build and sends no alert (synced_builds = 0, alerts_created = 0) and
\* leaves the builds table as the first sync left it.
C34_SyncIdempotent ==
  [][(/\ last'.op = "sync" /\ sync'.code = 200
      /\ sync.code = 200 /\ sync.seen = jenkins) =>
       /\ sync'.synced_builds = 0
       /\ sync'.alerts_created = 0
       /\ builds' = builds]_vars

\* a sync of a server with a failed build has found every build in the table
C34_Witness ==
  /\ last.op = "sync" /\ sync.code = 200 /\ sync.seen = jenkins
  /\ sync.total_builds > 0
  /\ sync.synced_builds = 0 /\ sync.alerts_created = 0
  /\ \E i \in 1..Len(builds) : builds[i].status = "failed"

\* C35: after a sync that answered 200, every build of every job the server
\* returned has its row in the builds table, also when two jobs have builds
\* with the same number.
C35_EveryBuildHasRow ==
  (last.op = "sync" /\ sync.code = 200) =>
    \A j \in 1..Len(jenkins) : \A b \in 1..Len(jenkins[j].builds) :
      \E i \in 1..Len(builds) :
        builds[i].commit_hash = <<"jenkins", jenkins[j].name, jenkins[j].builds[b].number>>

\* C36: a build that was synced while it had no result gets its final status
\* by a sync made after the server reports the result: after a sync that
\* answered 200, the row of every build that has a result holds the status of
\* that result.
C36_SyncStoresFinalStatus ==
  (last.op = "sync" /\ sync.code = 200) =>
    \A j \in 1..Len(jenkins) : \A b \in 1..Len(jenkins[j].builds) :
      \A i \in 1..Len(builds) :
        (/\ builds[i].commit_hash = <<"jenkins", jenkins[j].name, jenkins[j].builds[b].number>>
         /\ IsSet(jenkins[j].builds[b].result)) =>
          builds[i].status = buildStatus(jenkins[j].builds[b].result)

\* C37: GET /api/notifications with the default limit returns every alert the
\* last sync created for a failed build and every alert created through the
\* notifications routes.
C37_SyncAlertsListed ==
  (last.op = "notifications" /\ last.count = DefaultLimit) =>
    /\ \A i \in 1..Len(sync.alerts) : sync.alerts[i] \in Range(last.returned)
    /\ \A i \in 1..Len(notifications) : notifications[i] \in Range(last.returned)

\* C38: a mail asked for while the transporter was still being made is not
\* lost: once the initialization has succeeded, every alert that was asked to
\* be mailed has been handed to the transport.
C38_NoMailLostToInitialization ==
  emailService.init = "done" => Len(mailed.handed) = Len(mailed.asked)

\* C39: over any number of calls of create-from-builds every failed build has
\* at most one notification, and the count a call answers with is the number
\* of notifications it created.
C39_OneNotificationPerFailedBuild ==
  /\ \A b \in 1..Len(builds) :
       Cardinality({i \in 1..Len(notifications) : notifications[i].build_id = b}) <= 1
  /\ last.op = "create-from-builds" => last.count = last.created

====
